---- MODULE Spec2Model ----
(***************************************************************************)
(* Model of the objectives backend: the persistence accessor (dbRun,       *)
(* dbGet, dbAll), the progress rollup, the webhook receiver and the        *)
(* notification fan-out, over the tables of migrations/create_schema.sql.  *)
(*                                                                         *)
(* Every cell of a row is a value record [t, n, d, s]: t is the JavaScript *)
(* / JSON type tag, n/d an exact rational (JavaScript numbers and DOUBLE   *)
(* PRECISION columns are modelled as exact rationals, rounding is not      *)
(* modelled), s a string.  A table is the sequence of its rows in          *)
(* insertion order.                                                        *)
(***************************************************************************)
EXTENDS Integers, Sequences, FiniteSets, TLC

VARIABLES
    objectives,            \* table objectives
    key_results,           \* table key_results
    webhook_integrations,  \* table webhook_integrations
    webhook_events,        \* table webhook_events
    progress_updates,      \* table progress_updates
    comments,              \* table comments
    users,                 \* table users
    objective_contributors,\* table objective_contributors
    objective_subscriptions,\* table objective_subscriptions
    notifications,         \* table notifications
    invitations,           \* table invitations
    faults,                \* users whose notification inserts the database service fails
    clock,                 \* the time new Date() gives
    uuidCounter,           \* number of identifiers uuidv4() has handed out
    last,                  \* the request served last: its inputs, the tables before it, its response
    inflight               \* the requests that await the database, each with what it has read so far

vars == <<objectives, key_results, webhook_integrations, webhook_events,
          progress_updates, comments, users, objective_contributors,
          objective_subscriptions, notifications, invitations, faults, clock,
          uuidCounter, last, inflight>>

-----------------------------------------------------------------------------
(* Bounds of the model.                                                    *)

MaxRequests == 2

MaxKeyResults == 2

-----------------------------------------------------------------------------
(* Values.                                                                 *)

Abs(x) == IF x < 0 THEN -x ELSE x

RECURSIVE GCD(_, _)
GCD(a, b) == IF b = 0 THEN a ELSE GCD(b, a % b)

\* the number n/d in lowest terms with a positive denominator
Num(n, d) ==
    LET g == GCD(Abs(n), Abs(d))
        sg == IF d < 0 THEN -1 ELSE 1
    IN [t |-> "num", n |-> (sg * n) \div g, d |-> (sg * d) \div g, s |-> ""]

Int2Num(i) == [t |-> "num", n |-> i, d |-> 1, s |-> ""]

Null == [t |-> "null", n |-> 0, d |-> 1, s |-> ""]

Undefined == [t |-> "undefined", n |-> 0, d |-> 1, s |-> ""]

Str(x) == [t |-> "str", n |-> 0, d |-> 1, s |-> x]

Bool(b) == [t |-> "bool", n |-> IF b THEN 1 ELSE 0, d |-> 1, s |-> ""]

\* the k-th identifier handed out by uuidv4(): a string no other string equals
Uuid(k) == [t |-> "str", n |-> k, d |-> 1, s |-> "uuid"]

\* CURRENT_TIMESTAMP / new Date().toISOString()
Now == [t |-> "timestamp", n |-> 0, d |-> 1, s |-> "now"]

IsNum(v) == v.t = "num"

Add(a, b) == Num(a.n * b.d + b.n * a.d, a.d * b.d)

Mul(a, b) == Num(a.n * b.n, a.d * b.d)

\* a / b for b # 0
Div(a, b) == Num(a.n * b.d, a.d * b.n)

Less(a, b) == a.n * b.d < b.n * a.d

MathMin(a, b) == IF Less(b, a) THEN b ELSE a

MathMax(a, b) == IF Less(a, b) THEN b ELSE a

\* JavaScript truthiness
Truthy(v) ==
    CASE v.t = "num" -> v.n # 0
      [] v.t = "str" -> ~(v.s = "" /\ v.n = 0)
      [] v.t = "bool" -> v.n = 1
      [] v.t = "timestamp" -> TRUE
      [] OTHER -> FALSE

\* a || b
OrElse(a, b) == IF Truthy(a) THEN a ELSE b

\* v > 0 (null and undefined compare as not greater)
GreaterThanZero(v) == IsNum(v) /\ v.n > 0

Zero == Int2Num(0)

Hundred == Int2Num(100)

-----------------------------------------------------------------------------
(* The database: column types of the schema and what the data service      *)
(* accepts for them.                                                       *)

ColumnType(table, column) ==
    CASE column \in {"target_value", "current_value", "progress_percentage",
                     "previous_value", "new_value", "value_before", "value_after"} -> "DOUBLE"
      [] column = "failure_count" -> "INTEGER"
      [] column \in {"processed", "read"} -> "BOOLEAN"
      [] column \in {"last_received_at", "updated_at"} -> "TIMESTAMP"
      [] OTHER -> "TEXT"

\* whether a JSON value is valid input for a column of that type
Accepts(type, v) ==
    CASE v.t = "null" -> TRUE
      [] type = "TEXT" -> v.t \in {"str", "num"}
      [] type = "DOUBLE" -> v.t = "num"
      [] type = "INTEGER" -> v.t = "num" /\ v.d = 1
      [] type = "BOOLEAN" -> v.t = "bool" \/ (v.t = "num" /\ v.d = 1 /\ v.n \in {0, 1})
      [] type = "TIMESTAMP" -> v.t = "timestamp"
      [] OTHER -> FALSE

\* the value a column of that type stores for an accepted input
Stored(type, v) ==
    IF type = "BOOLEAN" /\ v.t = "num" THEN Bool(v.n = 1) ELSE v

DB == [objectives |-> objectives,
       key_results |-> key_results,
       webhook_integrations |-> webhook_integrations,
       webhook_events |-> webhook_events,
       progress_updates |-> progress_updates,
       comments |-> comments,
       users |-> users,
       objective_contributors |-> objective_contributors,
       objective_subscriptions |-> objective_subscriptions,
       notifications |-> notifications,
       invitations |-> invitations,
       faults |-> faults]

\* a row with its columns assigned from a sequence of <<column, value>> pairs, in order
\* (columns the model does not keep, such as updated_at and headers, are dropped)
RECURSIVE Assign(_, _, _)
Assign(table, row, pairs) ==
    IF pairs = <<>> THEN row
    ELSE LET column == pairs[1][1]
         IN Assign(table,
                   IF column \in DOMAIN row
                   THEN [row EXCEPT ![column] = Stored(ColumnType(table, column), pairs[1][2])]
                   ELSE row,
                   Tail(pairs))

PairsAccepted(table, pairs) ==
    \A i \in 1..Len(pairs) : Accepts(ColumnType(table, pairs[i][1]), pairs[i][2])

\* supabase.from(table).update(pairs).eq(whereKey, whereValue): {error} on a rejected value
SupabaseUpdate(db, table, pairs, whereKey, whereValue) ==
    IF ~PairsAccepted(table, pairs)
    THEN [error |-> TRUE, db |-> db, count |-> 0]
    ELSE [error |-> FALSE,
          db |-> [db EXCEPT ![table] =
                    [i \in 1..Len(db[table]) |->
                        IF db[table][i][whereKey] = whereValue
                        THEN Assign(table, db[table][i], pairs)
                        ELSE db[table][i]]],
          count |-> Cardinality({i \in 1..Len(db[table]) : db[table][i][whereKey] = whereValue})]

\* the columns a table gives a new row that the insert does not name
DefaultRow(table) ==
    CASE table = "webhook_events" ->
            [id |-> Null, webhook_integration_id |-> Null, payload |-> Null,
             processed |-> Bool(FALSE), error_message |-> Null,
             value_before |-> Null, value_after |-> Null]
      [] table = "progress_updates" ->
            [id |-> Null, objective_id |-> Null, user_id |-> Null,
             previous_value |-> Null, new_value |-> Null, notes |-> Null]
      [] table = "comments" ->
            [id |-> Null, objective_id |-> Null, user_id |-> Null, content |-> Null]
      [] table = "notifications" ->
            [id |-> Null, user_id |-> Null, objective_id |-> Null, comment_id |-> Null,
             type |-> Null, read |-> Bool(FALSE)]
      [] table = "key_results" ->
            [id |-> Null, objective_id |-> Null, target_value |-> Null,
             current_value |-> Null, progress_percentage |-> Zero]
      [] table = "objective_subscriptions" ->
            [id |-> Null, objective_id |-> Null, user_id |-> Null]
      [] table = "users" ->
            [id |-> Null, name |-> Null, email |-> Null, organization_id |-> Null,
             role |-> Str("Team Member")]

\* the foreign keys of a table, as <<column, referenced table>>
ForeignKeys(table) ==
    CASE table = "webhook_events" -> {<<"webhook_integration_id", "webhook_integrations">>}
      [] table = "webhook_integrations" -> {<<"objective_id", "objectives">>}
      [] table = "progress_updates" -> {<<"objective_id", "objectives">>, <<"user_id", "users">>}
      [] table = "comments" -> {<<"objective_id", "objectives">>, <<"user_id", "users">>}
      [] table = "key_results" -> {<<"objective_id", "objectives">>}
      [] table = "notifications" ->
            {<<"user_id", "users">>, <<"objective_id", "objectives">>,
             <<"comment_id", "comments">>}
      [] OTHER -> {}

\* every foreign key of the row is null or names a row of the referenced table
ForeignKeysHold(db, table, row) ==
    \A fk \in ForeignKeys(table) :
        \/ row[fk[1]] = Null
        \/ \E i \in 1..Len(db[fk[2]]) : db[fk[2]][i].id = row[fk[1]]

\* the UNIQUE constraints of a table, each the set of its columns
UniqueKeys(table) ==
    CASE table \in {"objective_subscriptions", "objective_contributors"} ->
            {{"user_id", "objective_id"}}
      [] table = "users" -> {{"email"}}
      [] table = "invitations" -> {{"token"}}
      [] OTHER -> {}

\* no row of the table agrees with the row on all columns of a UNIQUE constraint
UniqueKeysHold(db, table, row) ==
    \A key \in UniqueKeys(table) :
        \A i \in 1..Len(db[table]) : \E column \in key : db[table][i][column] # row[column]

\* the service fails the insert (the client returns an error object or throws)
Faulted(db, table, row) == table = "notifications" /\ row.user_id \in db.faults

\* supabase.from(table).insert(pairs)
SupabaseInsert(db, table, pairs) ==
    IF \/ ~PairsAccepted(table, pairs)
       \/ ~ForeignKeysHold(db, table, Assign(table, DefaultRow(table), pairs))
       \/ ~UniqueKeysHold(db, table, Assign(table, DefaultRow(table), pairs))
       \/ Faulted(db, table, Assign(table, DefaultRow(table), pairs))
    THEN [error |-> TRUE, db |-> db]
    ELSE [error |-> FALSE,
          db |-> [db EXCEPT ![table] = Append(@, Assign(table, DefaultRow(table), pairs))]]

\* a row that references the objective through a foreign key without ON DELETE
\* CASCADE, directly or through a webhook integration the deletion would remove
ObjectiveDeleteRestricted(db, id) ==
    \/ \E i \in 1..Len(db.objectives) : db.objectives[i].parent_objective_id = id
    \/ \E i \in 1..Len(db.progress_updates) : db.progress_updates[i].objective_id = id
    \/ \E i \in 1..Len(db.webhook_integrations), j \in 1..Len(db.webhook_events) :
            /\ db.webhook_integrations[i].objective_id = id
            /\ db.webhook_events[j].webhook_integration_id = db.webhook_integrations[i].id

\* the tables without the objective and without the rows that reference it ON DELETE CASCADE
ObjectiveDeleteCascade(db, id) ==
    LET commentIds == { db.comments[i].id :
                            i \in { j \in 1..Len(db.comments) : db.comments[j].objective_id = id } }
    IN [db EXCEPT
            !.objectives = SelectSeq(@, LAMBDA r : r.id # id),
            !.key_results = SelectSeq(@, LAMBDA r : r.objective_id # id),
            !.comments = SelectSeq(@, LAMBDA r : r.objective_id # id),
            !.objective_contributors = SelectSeq(@, LAMBDA r : r.objective_id # id),
            !.objective_subscriptions = SelectSeq(@, LAMBDA r : r.objective_id # id),
            !.webhook_integrations = SelectSeq(@, LAMBDA r : r.objective_id # id),
            !.notifications = SelectSeq(@, LAMBDA r : /\ r.objective_id # id
                                                      /\ r.comment_id \notin commentIds)]

\* supabase.from(table).delete().eq(whereKey, whereValue)
SupabaseDelete(db, table, whereKey, whereValue) ==
    IF table = "objectives"
    THEN IF ObjectiveDeleteRestricted(db, whereValue)
         THEN [error |-> TRUE, db |-> db]
         ELSE [error |-> FALSE, db |-> ObjectiveDeleteCascade(db, whereValue)]
    ELSE [error |-> FALSE,
          db |-> [db EXCEPT ![table] = SelectSeq(@, LAMBDA r : r[whereKey] # whereValue)]]

-----------------------------------------------------------------------------
(* db-helpers.js.  A statement is the query text as dbRun's regular        *)
(* expressions split it: the table, the SET parts as <<key, valueExpr>>,   *)
(* the inserted columns, the key of the WHERE clause.                      *)

\* dbRun, UPDATE branch: the updates object built from the SET parts
RECURSIVE SetClauseUpdates(_, _, _)
SetClauseUpdates(setParts, params, paramIndex) ==
    IF setParts = <<>> THEN <<>>
    ELSE LET key == setParts[1][1]
             valueExpr == setParts[1][2]
         IN IF valueExpr = "?"
            THEN <<<<key, params[paramIndex]>>>>
                 \o SetClauseUpdates(Tail(setParts), params, paramIndex + 1)
            ELSE IF valueExpr = "CURRENT_TIMESTAMP"
            THEN <<<<key, Now>>>>
                 \o SetClauseUpdates(Tail(setParts), params, paramIndex)
            ELSE IF paramIndex <= Len(params)
            THEN <<<<key, params[paramIndex]>>>>
                 \o SetClauseUpdates(Tail(setParts), params, paramIndex + 1)
            ELSE SetClauseUpdates(Tail(setParts), params, paramIndex)

\* dbRun: {ok, db}; ok = FALSE when it throws
DbRun(db, stmt, params) ==
    CASE stmt.kind = "INSERT" ->
            LET r == SupabaseInsert(db, stmt.table,
                        [i \in 1..Len(stmt.columns) |-> <<stmt.columns[i], params[i]>>])
            IN [ok |-> ~r.error, db |-> r.db]
      [] stmt.kind = "UPDATE" ->
            LET r == SupabaseUpdate(db, stmt.table,
                        SetClauseUpdates(stmt.set, params, 1),
                        stmt.whereKey, params[Len(params)])
            IN [ok |-> ~r.error, db |-> r.db]
      [] stmt.kind = "DELETE" ->
            LET r == SupabaseDelete(db, stmt.table, stmt.whereKey, params[1])
            IN [ok |-> ~r.error, db |-> r.db]

\* whereClause.match(/(\w+)\s*=\s*\?/): of the conditions of a WHERE clause joined by
\* AND, the column of the first one; the others are not looked at
WhereMatch(conditions) == conditions[1]

\* dbGet: the row as a one-element sequence, <<>> for null (.single() finds
\* no row, or more than one: PGRST116)
DbGet(db, table, whereKey, whereValue) ==
    LET rows == SelectSeq(db[table], LAMBDA r : r[whereKey] = whereValue)
    IN IF Len(rows) = 1 THEN rows ELSE <<>>

\* dbAll with WHERE key = ?
DbAll(db, table, whereKey, whereValue) ==
    SelectSeq(db[table], LAMBDA r : r[whereKey] = whereValue)

RECURSIVE Reverse(_)
Reverse(seq) == IF seq = <<>> THEN <<>> ELSE Append(Reverse(Tail(seq)), seq[1])

\* query.match(/LIMIT\s+(\d+)/i): the number written after LIMIT, as a sequence of at
\* most one; a placeholder is no match
LimitMatch(limitText) ==
    CASE limitText = "1" -> <<1>>
      [] limitText = "50" -> <<50>>
      [] OTHER -> <<>>

\* dbAll with WHERE key = ? ORDER BY created_at [DESC] LIMIT ... OFFSET ...: rows are
\* inserted in the order of their created_at; OFFSET is not looked for
DbAllOrdered(db, stmt, params) ==
    LET rows == DbAll(db, stmt.table, stmt.whereKey, params[1])
        ordered == IF stmt.ascending THEN rows ELSE Reverse(rows)
        limitMatch == LimitMatch(stmt.limit)
    IN IF limitMatch = <<>> THEN ordered
       ELSE SubSeq(ordered, 1, IF Len(ordered) < limitMatch[1] THEN Len(ordered)
                               ELSE limitMatch[1])

-----------------------------------------------------------------------------
(* Progress rollup.                                                        *)

RECURSIVE TotalProgress(_)
TotalProgress(keyResults) ==
    IF keyResults = <<>> THEN Zero
    ELSE Add(OrElse(keyResults[1].progress_percentage, Zero), TotalProgress(Tail(keyResults)))

\* the rollup without the division by the number of key results
AverageProgressUndivided(keyResults) == TotalProgress(keyResults)

AverageProgress(keyResults) == Div(TotalProgress(keyResults), Int2Num(Len(keyResults)))

\* const targetValue = objective.target_value || 100
RollupTargetValue(objective) == OrElse(objective.target_value, Hundred)

\* the reset that forgets current_value
RollupResetProgressOnly == <<<<"progress_percentage", Zero>>, <<"updated_at", Now>>>>

\* the row the rollup writes when the objective has no key result
RollupReset == <<<<"progress_percentage", Zero>>, <<"current_value", Zero>>, <<"updated_at", Now>>>>

\* a rollup whose current_value is not scaled down from the percentage
RollupUpdatesUnscaled(objective, keyResults) ==
    IF Len(keyResults) = 0 THEN RollupReset
    ELSE <<<<"progress_percentage", AverageProgress(keyResults)>>,
           <<"current_value", Mul(AverageProgress(keyResults), RollupTargetValue(objective))>>,
           <<"updated_at", Now>>>>

\* the update the rollup writes, from the objective and the key results it has read
RollupUpdates(objective, keyResults) ==
    IF Len(keyResults) = 0 THEN RollupReset
    ELSE LET averageProgress == AverageProgress(keyResults)
             targetValue == RollupTargetValue(objective)
             currentValue == Mul(Div(averageProgress, Hundred), targetValue)
         IN <<<<"progress_percentage", averageProgress>>,
              <<"current_value", currentValue>>,
              <<"updated_at", Now>>>>

CalculateObjectiveProgress(db, objectiveId) ==
    LET objective == DbGet(db, "objectives", "id", objectiveId)
        keyResults == DbAll(db, "key_results", "objective_id", objectiveId)
    IN IF objective = <<>> THEN db
       ELSE SupabaseUpdate(db, "objectives", RollupUpdates(objective[1], keyResults),
                           "id", objectiveId).db

-----------------------------------------------------------------------------
(* Webhook receiver: POST /api/webhooks/:webhook_id.                       *)
(*                                                                         *)
(* A payload is a flat JSON object: a function from its possible keys to   *)
(* values, Undefined for a key it does not have.  A field mapping is the   *)
(* sequence of its <<targetField, sourcePath>> entries.                    *)

PayloadKeys == {"a", "b", "c", "comment"}

\* sourcePath.startsWith('payload.')
StartsWithPayload(sourcePath) == sourcePath \in {"payload.a", "payload.b", "payload.c"}

\* sourcePath.substring(8)
Substring8(sourcePath) ==
    CASE sourcePath = "payload.a" -> "a"
      [] sourcePath = "payload.b" -> "b"
      [] sourcePath = "payload.c" -> "c"

\* getNestedValue for a one-segment path
GetNestedValue(payload, path) ==
    IF path \in DOMAIN payload THEN payload[path] ELSE Undefined

NoMappedData ==
    [progress_percentage |-> Undefined, current_value |-> Undefined,
     target_value |-> Undefined, comment |-> Undefined]

RECURSIVE MapEntries(_, _, _)
MapEntries(payload, entries, result) ==
    IF entries = <<>> THEN result
    ELSE LET targetField == entries[1][1]
             sourcePath == entries[1][2]
             value == IF StartsWithPayload(sourcePath)
                      THEN GetNestedValue(payload, Substring8(sourcePath))
                      ELSE Undefined
         IN MapEntries(payload, Tail(entries),
                       IF value # Undefined /\ targetField \in DOMAIN result
                       THEN [result EXCEPT ![targetField] = value]
                       ELSE result)

ApplyFieldMapping(payload, fieldMapping) == MapEntries(payload, fieldMapping, NoMappedData)

\* crypto.createHmac('sha256', secret).update(JSON.stringify(payload)).digest('hex'):
\* two digests are equal exactly when key and message are
Hmac(secret, payload) == [key |-> secret, msg |-> payload]

\* signature.replace('sha256=', '')
SignatureHash(signature) == signature.hash

\* a verification that accepts every signature
VerifyWebhookSignatureAlways(payload, signatureHash, secret) == TRUE

VerifyWebhookSignature(payload, signatureHash, secret) ==
    signatureHash = Hmac(secret, payload)

\* a clamp with no lower bound
ClampProgressUpperOnly(p) == MathMin(Hundred, p)

\* Math.max(0, Math.min(100, p))
ClampProgress(p) == MathMax(Zero, MathMin(Hundred, p))

\* Math.min(100, (current / target) * 100)
DerivedProgress(current, target) == MathMin(Hundred, Mul(Div(current, target), Hundred))

\* the progress the current_value branch derives: against the stored target
ProgressFromCurrent(objective, valueAfter) ==
    DerivedProgress(valueAfter, objective.target_value)

\* the target_value branch dividing the stored current value even when one is mapped
CurrentForTargetStored(objective, mappedData) == OrElse(objective.current_value, Zero)

\* the current value the target_value branch divides: the mapped one if there is one
CurrentForTarget(objective, mappedData) ==
    IF mappedData.current_value # Undefined THEN mappedData.current_value
    ELSE OrElse(objective.current_value, Zero)

\* progress derived against the target the objective had
ProgressFromStoredTarget(objective, current, target_value) ==
    IF GreaterThanZero(objective.target_value)
    THEN DerivedProgress(current, objective.target_value)
    ELSE DerivedProgress(current, target_value)

\* the progress the target_value branch derives: against the mapped target
ProgressFromTarget(objective, current, target_value) ==
    DerivedProgress(current, target_value)

\* the updates object the receiver builds (Undefined: key not set)
WebhookUpdates(objective, mappedData) ==
    LET mapsProgress == mappedData.progress_percentage # Undefined
        mapsCurrent == mappedData.current_value # Undefined
        mapsTarget == mappedData.target_value # Undefined
        afterProgress == IF mapsProgress
                         THEN ClampProgress(mappedData.progress_percentage)
                         ELSE Undefined
        afterCurrent == IF mapsCurrent /\ GreaterThanZero(objective.target_value)
                        THEN ProgressFromCurrent(objective, mappedData.current_value)
                        ELSE afterProgress
        afterTarget == IF mapsTarget /\ GreaterThanZero(mappedData.target_value)
                       THEN ProgressFromTarget(objective,
                                               CurrentForTarget(objective, mappedData),
                                               mappedData.target_value)
                       ELSE afterCurrent
    IN [progress_percentage |-> afterTarget,
        current_value |-> mappedData.current_value,
        target_value |-> mappedData.target_value]

\* a progress update that records the old value as the new one
ValueAfterStale(mappedData, valueBefore) == valueBefore

\* valueAfter: the mapped current value, else valueBefore
ValueAfter(mappedData, valueBefore) ==
    IF mappedData.current_value # Undefined THEN mappedData.current_value ELSE valueBefore

\* the SET parts and parameters of `UPDATE objectives SET ${updateFields} WHERE id = ?`
UpdateFields(updates) ==
    SelectSeq(<<"progress_percentage", "current_value", "target_value">>,
              LAMBDA key : updates[key] # Undefined) \o <<"updated_at">>

UpdateValues(updates) ==
    LET fields == UpdateFields(updates)
    IN [i \in 1..Len(fields) |->
            IF fields[i] = "updated_at" THEN Now ELSE updates[fields[i]]]

\* the statements of the receiver, as dbRun parses them
IncrementFailureCount ==
    [kind |-> "UPDATE", table |-> "webhook_integrations",
     set |-> <<<<"failure_count", "failure_count + 1">>>>, whereKey |-> "id"]

InsertEventWithError ==
    [kind |-> "INSERT", table |-> "webhook_events",
     columns |-> <<"id", "webhook_integration_id", "payload", "headers", "processed",
                   "error_message">>]

InsertEvent ==
    [kind |-> "INSERT", table |-> "webhook_events",
     columns |-> <<"id", "webhook_integration_id", "payload", "headers", "processed">>]

MarkObjectiveNotFound ==
    [kind |-> "UPDATE", table |-> "webhook_events",
     set |-> <<<<"processed", "1">>, <<"error_message", "?">>>>, whereKey |-> "id"]

UpdateObjective(updates) ==
    [kind |-> "UPDATE", table |-> "objectives",
     set |-> [i \in 1..Len(UpdateFields(updates)) |-> <<UpdateFields(updates)[i], "?">>],
     whereKey |-> "id"]

InsertProgressUpdate ==
    [kind |-> "INSERT", table |-> "progress_updates",
     columns |-> <<"id", "objective_id", "user_id", "previous_value", "new_value", "notes">>]

InsertComment ==
    [kind |-> "INSERT", table |-> "comments",
     columns |-> <<"id", "objective_id", "user_id", "content">>]

MarkProcessed ==
    [kind |-> "UPDATE", table |-> "webhook_events",
     set |-> <<<<"processed", "1">>, <<"value_before", "?">>, <<"value_after", "?">>>>,
     whereKey |-> "id"]

ResetFailureCount ==
    [kind |-> "UPDATE", table |-> "webhook_integrations",
     set |-> <<<<"last_received_at", "CURRENT_TIMESTAMP">>, <<"failure_count", "0">>>>,
     whereKey |-> "id"]

\* JSON.stringify(payload), JSON.stringify(req.headers): the stored text is not modelled
JsonText == Str("json")

\* error.message of the error the data service answers a rejected value with
DbErrorMessage == Str("invalid input syntax")

Response(db, status, uuids) == [db |-> db, status |-> status, uuids |-> uuids]

\* the catch block: log the error as an event, count the failure, answer 500
WebhookCatch(db, k, webhookId, errorMessage) ==
    LET logged == DbRun(db, InsertEventWithError,
                        <<Uuid(k + 1), webhookId, JsonText, JsonText, Zero, errorMessage>>)
    IN IF ~logged.ok THEN Response(logged.db, 500, k + 1)
       ELSE Response(DbRun(logged.db, IncrementFailureCount, <<webhookId>>).db, 500, k + 1)

\* the signature does not verify
WebhookInvalidSignature(db, k, webhookId) ==
    LET counted == DbRun(db, IncrementFailureCount, <<webhookId>>)
        logged == DbRun(counted.db, InsertEventWithError,
                        <<Uuid(k + 1), webhookId, JsonText, JsonText, Zero,
                          Str("Invalid signature")>>)
    IN IF ~counted.ok THEN WebhookCatch(counted.db, k, webhookId, DbErrorMessage)
       ELSE IF ~logged.ok THEN WebhookCatch(logged.db, k + 1, webhookId, DbErrorMessage)
       ELSE Response(logged.db, 401, k + 1)

\* webhookComment: the mapped comment, else the payload's own comment field
WebhookComment(mappedData, payload) ==
    IF Truthy(mappedData.comment) THEN mappedData.comment
    ELSE IF Truthy(GetNestedValue(payload, "comment")) THEN payload["comment"]
    ELSE Null

\* commentContent: the text starts with the webhook's comment, or with the default
\* (the lines that list the changed fields are not modelled)
CommentContent(webhookComment) ==
    IF Truthy(webhookComment) THEN webhookComment ELSE Str("Progress updated via webhook")

HasUpdates(updates) ==
    \E key \in {"progress_percentage", "current_value", "target_value"} :
        updates[key] # Undefined

\* steps 7 and 8 for a resolved objective
WebhookApply(db, k, webhookId, eventId, objective, mappedData, payload) ==
    LET updates == WebhookUpdates(objective, mappedData)
        valueBefore == OrElse(objective.current_value, Zero)
        valueAfter == ValueAfter(mappedData, valueBefore)
        written == DbRun(db, UpdateObjective(updates),
                         UpdateValues(updates) \o <<objective.id>>)
        audited == DbRun(written.db, InsertProgressUpdate,
                         <<Uuid(k + 1), objective.id, Null, valueBefore, valueAfter,
                           Str("Updated via webhook")>>)
        narrated == DbRun(audited.db, InsertComment,
                          <<Uuid(k + 2), objective.id, Null,
                            CommentContent(WebhookComment(mappedData, payload))>>)
        rolled == IF Truthy(objective.parent_objective_id)
                  THEN CalculateObjectiveProgress(narrated.db, objective.parent_objective_id)
                  ELSE narrated.db
        changed == HasUpdates(updates)
        db7 == IF changed THEN rolled ELSE db
        k7 == IF changed THEN k + 2 ELSE k
        marked == DbRun(db7, MarkProcessed, <<valueBefore, valueAfter, eventId>>)
        reset == DbRun(marked.db, ResetFailureCount, <<webhookId>>)
    IN IF changed /\ ~written.ok THEN WebhookCatch(written.db, k, webhookId, DbErrorMessage)
       ELSE IF changed /\ ~audited.ok
       THEN WebhookCatch(audited.db, k + 1, webhookId, DbErrorMessage)
       ELSE IF changed /\ ~narrated.ok
       THEN WebhookCatch(narrated.db, k + 2, webhookId, DbErrorMessage)
       ELSE IF ~marked.ok THEN WebhookCatch(marked.db, k7, webhookId, DbErrorMessage)
       ELSE IF ~reset.ok THEN WebhookCatch(reset.db, k7, webhookId, DbErrorMessage)
       ELSE Response(reset.db, 200, k7)

\* steps 3 to 8: log the event, resolve the objective, map, update
WebhookProcess(db, k, webhookIntegration, payload) ==
    LET webhookId == webhookIntegration.id
        eventId == Uuid(k + 1)
        logged == DbRun(db, InsertEvent, <<eventId, webhookId, JsonText, JsonText, Zero>>)
        objective == DbGet(logged.db, "objectives", "id", webhookIntegration.objective_id)
        notFound == DbRun(logged.db, MarkObjectiveNotFound,
                          <<Str("Objective not found"), eventId>>)
    IN IF ~logged.ok THEN WebhookCatch(logged.db, k + 1, webhookId, DbErrorMessage)
       ELSE IF objective = <<>>
       THEN IF notFound.ok THEN Response(notFound.db, 404, k + 1)
            ELSE WebhookCatch(notFound.db, k + 1, webhookId, DbErrorMessage)
       ELSE WebhookApply(logged.db, k + 1, webhookId, eventId, objective[1],
                         ApplyFieldMapping(payload, webhookIntegration.field_mapping),
                         payload)

\* app.post('/api/webhooks/:webhook_id'): the tables after the request, its status
\* code, and the number of identifiers handed out
WebhookReceiver(db, k, webhookId, payload, signature) ==
    LET webhookIntegration == DbGet(db, "webhook_integrations", "id", webhookId)
    IN IF webhookIntegration = <<>> THEN Response(db, 404, k)
       ELSE IF webhookIntegration[1].status # Str("active") THEN Response(db, 403, k)
       ELSE IF signature.present
               /\ ~VerifyWebhookSignature(payload, SignatureHash(signature),
                                          webhookIntegration[1].webhook_secret)
       THEN WebhookInvalidSignature(db, k, webhookId)
       ELSE WebhookProcess(db, k, webhookIntegration[1], payload)

\* parseInt of a query parameter: Undefined stands for NaN
ParseInt(v) == IF IsNum(v) THEN v ELSE Undefined

SelectEvents ==
    [table |-> "webhook_events", whereKey |-> "webhook_integration_id",
     ascending |-> FALSE, limit |-> "?", offset |-> "?"]

\* app.get('/api/webhooks/:id/events')
GetWebhookEvents(db, k, id, queryLimit, queryOffset) ==
    LET limit == OrElse(ParseInt(queryLimit), Int2Num(50))
        offset == OrElse(ParseInt(queryOffset), Zero)
    IN [db |-> db, status |-> 200, uuids |-> k,
        rows |-> DbAllOrdered(db, SelectEvents, <<id, limit, offset>>)]

-----------------------------------------------------------------------------
(* Key results and objectives.                                             *)

Exists(db, table, id) == \E i \in 1..Len(db[table]) : db[table][i].id = id

\* app.post('/api/objectives/:id/key-results')
CreateKeyResult(db, k, objectiveId, target_value, current_value) ==
    LET progressPercentage ==
            IF GreaterThanZero(target_value)
            THEN Mul(Div(OrElse(current_value, Zero), target_value), Hundred)
            ELSE Zero
        inserted == SupabaseInsert(db, "key_results",
                        <<<<"id", Uuid(k + 1)>>,
                          <<"objective_id", objectiveId>>,
                          <<"target_value", IF target_value = Undefined THEN Null ELSE target_value>>,
                          <<"current_value", OrElse(current_value, Zero)>>,
                          <<"progress_percentage", progressPercentage>>>>)
    IN IF ~Exists(db, "objectives", objectiveId) \/ inserted.error
       THEN Response(db, 500, k + 1)        \* foreign key objective_id, or a rejected value
       ELSE Response(CalculateObjectiveProgress(inserted.db, objectiveId), 201, k + 1)

Given(v) == v # Undefined /\ v # Null

\* app.put('/api/key-results/:id')
UpdateKeyResult(db, k, id, target_value, current_value, progress_percentage) ==
    LET existing == DbGet(db, "key_results", "id", id)
        finalTargetValue == IF Given(target_value) THEN target_value
                            ELSE OrElse(existing[1].target_value, Hundred)
        progressPercentage ==
            IF Given(progress_percentage) THEN progress_percentage
            ELSE IF Given(current_value)
            THEN IF GreaterThanZero(finalTargetValue)
                 THEN Mul(Div(current_value, finalTargetValue), Hundred)
                 ELSE Zero
            ELSE OrElse(existing[1].progress_percentage, Zero)
        finalCurrentValue ==
            IF Given(progress_percentage)
            THEN IF Given(current_value) THEN current_value
                 ELSE Mul(Div(progressPercentage, Hundred), finalTargetValue)
            ELSE IF Given(current_value) THEN current_value
            ELSE OrElse(existing[1].current_value, Zero)
        updated == SupabaseUpdate(db, "key_results",
                        <<<<"target_value", finalTargetValue>>,
                          <<"current_value", finalCurrentValue>>,
                          <<"progress_percentage", progressPercentage>>,
                          <<"updated_at", Now>>>>,
                        "id", id)
    IN IF existing = <<>> THEN Response(db, 404, k)
       ELSE IF updated.error THEN Response(db, 500, k)
       ELSE Response(CalculateObjectiveProgress(updated.db, existing[1].objective_id), 200, k)

DeleteKeyResultStatement == [kind |-> "DELETE", table |-> "key_results", whereKey |-> "id"]

\* app.delete('/api/key-results/:id')
DeleteKeyResult(db, k, id) ==
    LET keyResult == DbGet(db, "key_results", "id", id)
        deleted == DbRun(db, DeleteKeyResultStatement, <<id>>)
    IN IF keyResult = <<>> THEN Response(deleted.db, 200, k)
       ELSE Response(CalculateObjectiveProgress(deleted.db, keyResult[1].objective_id), 200, k)

DeleteObjectiveStatement == [kind |-> "DELETE", table |-> "objectives", whereKey |-> "id"]

\* app.delete('/api/objectives/:id')
DeleteObjective(db, k, id) ==
    LET deleted == DbRun(db, DeleteObjectiveStatement, <<id>>)
    IN Response(deleted.db, IF deleted.ok THEN 200 ELSE 500, k)

\* app.put('/api/objectives/:id') with a body of target_value and current_value
PutObjective(db, k, id, target_value, current_value) ==
    LET pairs == (IF target_value # Undefined THEN <<<<"target_value", target_value>>>> ELSE <<>>)
                 \o (IF current_value # Undefined
                     THEN <<<<"current_value", current_value>>>> ELSE <<>>)
                 \o <<<<"updated_at", Now>>>>
        updated == SupabaseUpdate(db, "objectives", pairs, "id", id)
    IN IF updated.error \/ updated.count # 1 THEN Response(db, 500, k)
       ELSE Response(updated.db, 200, k)

-----------------------------------------------------------------------------
(* Notifications.  A text is the sequence of its characters.               *)

ToLowerCase(text) ==
    [i \in 1..Len(text) |->
        CASE text[i] = "A" -> "a"
          [] text[i] = "B" -> "b"
          [] OTHER -> text[i]]

\* [^\s@]
IsMentionChar(c) == c \notin {" ", "@"}

\* the last index of the run of mention characters that starts at i
RECURSIVE RunEnd(_, _)
RunEnd(content, i) ==
    IF i + 1 <= Len(content) /\ IsMentionChar(content[i + 1])
    THEN RunEnd(content, i + 1) ELSE i

\* the matches of /@([^\s@]+)/g from index i on
RECURSIVE MentionsFrom(_, _)
MentionsFrom(content, i) ==
    IF i > Len(content) THEN <<>>
    ELSE IF content[i] = "@" /\ i + 1 <= Len(content) /\ IsMentionChar(content[i + 1])
    THEN <<SubSeq(content, i + 1, RunEnd(content, i + 1))>>
         \o MentionsFrom(content, RunEnd(content, i + 1) + 1)
    ELSE MentionsFrom(content, i + 1)

ParseMentions(content) == MentionsFrom(content, 1)

\* a sequence without its repeated elements, first occurrences kept ([...new Set(x)])
RECURSIVE Distinct(_)
Distinct(seq) ==
    IF seq = <<>> THEN <<>>
    ELSE LET front == Distinct(SubSeq(seq, 1, Len(seq) - 1))
             x == seq[Len(seq)]
         IN IF \E i \in 1..Len(front) : front[i] = x THEN front ELSE Append(front, x)

MentionMatches(user, mention) ==
    \/ ToLowerCase(user.name) = ToLowerCase(mention)
    \/ ToLowerCase(user.email) = ToLowerCase(mention)

\* users.find(...): the first matching user, as a sequence of at most one
FindUser(allUsers, mention) ==
    LET found == SelectSeq(allUsers, LAMBDA u : MentionMatches(u, mention))
    IN IF found = <<>> THEN <<>> ELSE <<found[1].id>>

RECURSIVE MentionedIds(_, _)
MentionedIds(allUsers, mentions) ==
    IF mentions = <<>> THEN <<>>
    ELSE FindUser(allUsers, mentions[1]) \o MentionedIds(allUsers, Tail(mentions))

GetUserIdsFromMentions(db, mentions) == Distinct(MentionedIds(db.users, mentions))

\* createNotification for each user of a sequence, in order
\* a batch that stops at the first insert that fails
RECURSIVE CreateNotificationsAborting(_, _, _, _, _, _)
CreateNotificationsAborting(db, k, userIds, type, objectiveId, commentId) ==
    IF userIds = <<>> THEN [db |-> db, uuids |-> k]
    ELSE LET inserted == SupabaseInsert(db, "notifications",
                            <<<<"id", Uuid(k + 1)>>, <<"user_id", userIds[1]>>,
                              <<"objective_id", objectiveId>>, <<"comment_id", commentId>>,
                              <<"type", Str(type)>>, <<"read", Bool(FALSE)>>>>)
         IN IF inserted.error THEN [db |-> db, uuids |-> k + 1]
            ELSE CreateNotificationsAborting(inserted.db, k + 1, Tail(userIds), type,
                                             objectiveId, commentId)

RECURSIVE CreateNotifications(_, _, _, _, _, _)
CreateNotifications(db, k, userIds, type, objectiveId, commentId) ==
    IF userIds = <<>> THEN [db |-> db, uuids |-> k]
    ELSE CreateNotifications(
            SupabaseInsert(db, "notifications",
                <<<<"id", Uuid(k + 1)>>, <<"user_id", userIds[1]>>,
                  <<"objective_id", objectiveId>>, <<"comment_id", commentId>>,
                  <<"type", Str(type)>>, <<"read", Bool(FALSE)>>>>).db,
            k + 1, Tail(userIds), type, objectiveId, commentId)

UserIdsOf(rows) == [i \in 1..Len(rows) |-> rows[i].user_id]

\* a fan-out that does not exclude the actor
KeepsAnyStakeholder(userId, excludeUserId) == Truthy(userId)

\* whether the fan-out keeps a candidate: c.user_id && c.user_id !== excludeUserId
KeepsStakeholder(userId, excludeUserId) == Truthy(userId) /\ userId # excludeUserId

\* the userIds set of notifyObjectiveStakeholders, in insertion order
Stakeholders(db, objectiveId, excludeUserId) ==
    LET objective == DbGet(db, "objectives", "id", objectiveId)
        contributors == DbAll(db, "objective_contributors", "objective_id", objectiveId)
        subscriptions == DbAll(db, "objective_subscriptions", "objective_id", objectiveId)
    IN Distinct(SelectSeq(<<objective[1].owner_id>> \o UserIdsOf(contributors)
                            \o UserIdsOf(subscriptions),
                          LAMBDA u : KeepsStakeholder(u, excludeUserId)))

NotifyObjectiveStakeholders(db, k, objectiveId, type, excludeUserId, commentId) ==
    IF DbGet(db, "objectives", "id", objectiveId) = <<>> THEN [db |-> db, uuids |-> k]
    ELSE CreateNotifications(db, k, Stakeholders(db, objectiveId, excludeUserId),
                             type, objectiveId, commentId)

\* app.post('/api/objectives/:id/comments')
PostComment(db, k, objectiveId, user_id, content) ==
    LET id == Uuid(k + 1)
        inserted == SupabaseInsert(db, "comments",
                        <<<<"id", id>>, <<"objective_id", objectiveId>>,
                          <<"user_id", user_id>>, <<"content", Str("text")>>>>)
        mentioned == SelectSeq(GetUserIdsFromMentions(db, ParseMentions(content)),
                               LAMBDA u : u # user_id)
        mentionsDone == CreateNotifications(inserted.db, k + 1, mentioned, "mention",
                                            objectiveId, id)
        fanOut == NotifyObjectiveStakeholders(mentionsDone.db, mentionsDone.uuids,
                                              objectiveId, "comment", user_id, id)
    IN IF \/ inserted.error
          \/ ~Exists(db, "objectives", objectiveId)                 \* foreign key objective_id
          \/ (user_id # Null /\ ~Exists(db, "users", user_id))      \* foreign key user_id
       THEN Response(db, 500, k + 1)
       ELSE Response(fanOut.db, 201, fanOut.uuids)

\* app.patch('/api/objectives/:id/progress'); the results of the two writes are not
\* looked at, so a rejected write leaves the tables as they were and the request goes on
PatchProgress(db, k, objectiveId, current_value, user_id) ==
    LET objective == DbGet(db, "objectives", "id", objectiveId)
        previousValue == OrElse(objective[1].current_value, Zero)
        targetValue == OrElse(objective[1].target_value, Hundred)
        newProgress == IF GreaterThanZero(targetValue)
                       THEN Mul(Div(current_value, targetValue), Hundred)
                       ELSE Zero
        updateUserId == OrElse(user_id, objective[1].owner_id)
        updated == SupabaseUpdate(db, "objectives",
                        <<<<"current_value", current_value>>,
                          <<"progress_percentage", newProgress>>,
                          <<"updated_at", Now>>>>,
                        "id", objectiveId)
        logged == SupabaseInsert(updated.db, "progress_updates",
                        <<<<"id", Uuid(k + 1)>>, <<"objective_id", objectiveId>>,
                          <<"user_id", updateUserId>>,
                          <<"previous_value", previousValue>>,
                          <<"new_value", current_value>>, <<"notes", Str("")>>>>)
        notified == NotifyObjectiveStakeholders(logged.db, k + 1, objectiveId,
                                                "progress_update", updateUserId, Null)
    IN IF objective = <<>> THEN Response(db, 404, k)
       ELSE Response(notified.db, 200, notified.uuids)

-----------------------------------------------------------------------------
(* Contributors and subscriptions.                                         *)

\* app.delete('/api/objectives/:id/contributors/:userId')
RemoveContributor(db, k, id, userId) ==
    LET removed == DbRun(db, [kind |-> "DELETE", table |-> "objective_contributors",
                              whereKey |-> WhereMatch(<<"objective_id", "user_id">>)],
                         <<id, userId>>)
    IN Response(removed.db, IF removed.ok THEN 200 ELSE 500, k)

\* app.post('/api/objectives/:id/subscribe'); user is req.user, the row of the caller
Subscribe(db, k, id, user) ==
    LET objective == DbGet(db, "objectives", "id", id)
        existing == DbGet(db, "objective_subscriptions",
                          WhereMatch(<<"user_id", "objective_id">>), user.id)
        inserted == SupabaseInsert(db, "objective_subscriptions",
                        <<<<"id", Uuid(k + 1)>>, <<"user_id", user.id>>,
                          <<"objective_id", id>>>>)
        notified == CreateNotifications(inserted.db, k + 1, <<user.id>>,
                                        "objective_update", id, Null)
    IN IF ~Truthy(user.organization_id) THEN Response(db, 403, k)
       ELSE IF objective = <<>> THEN Response(db, 404, k)
       ELSE IF objective[1].organization_id # user.organization_id THEN Response(db, 403, k)
       ELSE IF existing # <<>> THEN Response(db, 400, k)
       ELSE Response(notified.db, 201, notified.uuids)

\* app.delete('/api/objectives/:id/subscribe')
Unsubscribe(db, k, id, user) ==
    LET subscription == DbGet(db, "objective_subscriptions",
                              WhereMatch(<<"user_id", "objective_id">>), user.id)
    IN IF ~Truthy(user.organization_id) THEN Response(db, 403, k)
       ELSE IF subscription = <<>> THEN Response(db, 404, k)
       ELSE Response(SupabaseDelete(db, "objective_subscriptions", "id",
                                    subscription[1].id).db, 200, k)

-----------------------------------------------------------------------------
(* Users, roles and invitations.  caller is req.user, the row authenticate  *)
(* has read for the token; req.organizationId is its organization_id.      *)

ValidRoles == {Str("Admin"), Str("Manager"), Str("Team Member"), Str("Viewer")}

\* adminCount.count <= 1, where adminCount is what dbGet returned for
\* 'SELECT COUNT(*) as count FROM users WHERE organization_id = ? AND role = ?':
\* a row of users, which has no count, so that the comparison is with undefined
IsLastAdmin(adminCount) ==
    LET count == IF "count" \in DOMAIN adminCount THEN adminCount.count ELSE Undefined
    IN IsNum(count) /\ ~Less(Int2Num(1), count)

\* adminCount of the two role handlers: null (<<>>) when the organization has no user
\* or more than one, and then reading .count throws
AdminCount(db, organizationId) ==
    DbGet(db, "users", WhereMatch(<<"organization_id", "role">>), organizationId)

\* app.put('/api/users/:id/role')
UpdateUserRole(db, k, id, role, caller) ==
    LET user == DbGet(db, "users", "id", id)
        adminCount == AdminCount(db, caller.organization_id)
        updated == SupabaseUpdate(db, "users", <<<<"role", role>>>>, "id", id)
    IN IF caller.role # Str("Admin") THEN Response(db, 403, k)
       ELSE IF ~Truthy(caller.organization_id) THEN Response(db, 403, k)
       ELSE IF ~Truthy(role) THEN Response(db, 400, k)
       ELSE IF role \notin ValidRoles THEN Response(db, 400, k)
       ELSE IF user = <<>> THEN Response(db, 404, k)
       ELSE IF user[1].organization_id # caller.organization_id THEN Response(db, 403, k)
       ELSE IF role # Str("Admin") /\ user[1].role = Str("Admin") /\ adminCount = <<>>
       THEN Response(db, 500, k)
       ELSE IF /\ role # Str("Admin") /\ user[1].role = Str("Admin")
               /\ IsLastAdmin(adminCount[1])
       THEN Response(db, 400, k)
       ELSE Response(updated.db, 200, k)

\* app.put('/api/users/:id') with a body of role and name
UpdateUser(db, k, id, role, name, caller) ==
    LET user == DbGet(db, "users", "id", id)
        adminCount == AdminCount(db, caller.organization_id)
        changesRole == role # Undefined /\ role # user[1].role
        demotes == role # Str("Admin") /\ user[1].role = Str("Admin")
        set == (IF name # Undefined THEN <<<<"name", "?">>>> ELSE <<>>)
               \o (IF role # Undefined /\ caller.role = Str("Admin")
                   THEN <<<<"role", "?">>>> ELSE <<>>)
        params == (IF name # Undefined THEN <<name>> ELSE <<>>)
                  \o (IF role # Undefined /\ caller.role = Str("Admin")
                      THEN <<role>> ELSE <<>>)
                  \o <<id>>
        updated == DbRun(db, [kind |-> "UPDATE", table |-> "users", set |-> set,
                              whereKey |-> "id"], params)
    IN IF ~Truthy(caller.organization_id) THEN Response(db, 403, k)
       ELSE IF user = <<>> THEN Response(db, 404, k)
       ELSE IF user[1].organization_id # caller.organization_id THEN Response(db, 403, k)
       ELSE IF changesRole /\ caller.role # Str("Admin") THEN Response(db, 403, k)
       ELSE IF changesRole /\ demotes /\ adminCount = <<>> THEN Response(db, 500, k)
       ELSE IF changesRole /\ demotes /\ IsLastAdmin(adminCount[1])
       THEN Response(db, 400, k)
       ELSE IF caller.id # id /\ caller.role # Str("Admin") THEN Response(db, 403, k)
       ELSE IF set = <<>> THEN Response(db, 400, k)
       ELSE Response(updated.db, IF updated.ok THEN 200 ELSE 500, k)

\* new Date(invitation.expires_at) < new Date()
Expired(invitation, now) == Less(invitation.expires_at, Int2Num(now))

\* app.get('/api/invitations/:token'): its query has a JOIN, which dbGet refuses
\* with an exception before it reads anything
LookupInvitation(db, k, token) == Response(db, 500, k)

\* app.post('/api/invitations/:token/accept'); accepted tells whether the body has a
\* name and a password that validatePassword accepts
AcceptInvitation(db, k, token, name, accepted, now) ==
    LET invitation == DbGet(db, "invitations", "token", token)
        expired == SupabaseUpdate(db, "invitations", <<<<"status", Str("expired")>>>>,
                                  "id", invitation[1].id)
        existingUser == DbGet(db, "users", "email", invitation[1].email)
        created == SupabaseInsert(db, "users",
                        <<<<"id", Uuid(k + 1)>>, <<"email", invitation[1].email>>,
                          <<"name", name>>,
                          <<"organization_id", invitation[1].organization_id>>,
                          <<"role", invitation[1].role>>>>)
        marked == SupabaseUpdate(created.db, "invitations",
                                 <<<<"status", Str("accepted")>>>>, "id", invitation[1].id)
    IN IF ~accepted THEN Response(db, 400, k)
       ELSE IF invitation = <<>> THEN Response(db, 404, k)
       ELSE IF Expired(invitation[1], now) THEN Response(expired.db, 400, k)
       ELSE IF invitation[1].status # Str("pending") THEN Response(db, 400, k)
       ELSE IF existingUser # <<>> THEN Response(db, 400, k)
       ELSE Response(marked.db, 201, k + 1)

\* app.delete('/api/invitations/:id')
CancelInvitation(db, k, id, caller) ==
    LET invitation == DbGet(db, "invitations", WhereMatch(<<"id", "organization_id">>), id)
        cancelled == SupabaseUpdate(db, "invitations", <<<<"status", Str("cancelled")>>>>,
                                    "id", id)
    IN IF caller.role \notin {Str("Admin"), Str("Manager")} THEN Response(db, 403, k)
       ELSE IF ~Truthy(caller.organization_id) THEN Response(db, 403, k)
       ELSE IF invitation = <<>> THEN Response(db, 404, k)
       ELSE IF invitation[1].status = Str("accepted") THEN Response(db, 400, k)
       ELSE Response(cancelled.db, 200, k)

-----------------------------------------------------------------------------
(* The requests the model serves, and the tables it starts from.           *)

U1 == Str("u1")
U2 == Str("u2")
U3 == Str("u3")
O1 == Str("o1")
O2 == Str("o2")
K1 == Str("k1")
W1 == Str("w1")
Org1 == Str("org1")
Org2 == Str("org2")
W2 == Str("w2")
Secret1 == Str("s1")

Payload(a, b, c, comment) == [a |-> a, b |-> b, c |-> c, comment |-> comment]

EmptyPayload == Payload(Undefined, Undefined, Undefined, Undefined)

\* the payloads deliveries carry: a, b and c are numbers or absent
Payloads ==
    { Payload(Int2Num(a), Undefined, Undefined, Undefined) : a \in {-10, 50, 150} }
    \cup { Payload(Undefined, Int2Num(80), Undefined, Undefined),
           Payload(Undefined, Undefined, Int2Num(200), Undefined),
           Payload(Undefined, Undefined, Zero, Undefined),
           Payload(Undefined, Int2Num(80), Int2Num(200), Undefined),
           Payload(Undefined, Int2Num(80), Zero, Undefined),
           Payload(Undefined, Int2Num(80), Int2Num(-50), Undefined),
           Payload(Undefined, Int2Num(-40), Undefined, Undefined),
           Payload(Int2Num(150), Int2Num(80), Undefined, Undefined),
           Payload(Int2Num(150), Undefined, Int2Num(200), Undefined),
           Payload(Int2Num(150), Undefined, Zero, Undefined),
           Payload(Int2Num(150), Int2Num(80), Int2Num(200), Undefined),
           Payload(Undefined, Undefined, Undefined, Str("deployed")),
           EmptyPayload }

\* the payloads that deliveries with a signature header carry
SignedPayloads ==
    { Payload(Int2Num(150), Undefined, Undefined, Undefined),
      Payload(Undefined, Int2Num(80), Int2Num(200), Undefined),
      Payload(Int2Num(150), Int2Num(80), Int2Num(200), Undefined),
      EmptyPayload }

NoSignature == [present |-> FALSE, hash |-> Hmac(Str(""), EmptyPayload)]

\* the header 'sha256=' + digest of msg under key
Signature(key, msg) == [present |-> TRUE, hash |-> Hmac(key, msg)]

Delivery(webhookId, payload, signature) ==
    [webhookId |-> webhookId, payload |-> payload, signature |-> signature]

Deliveries ==
    { Delivery(W1, p, NoSignature) : p \in Payloads }
    \cup { Delivery(W1, p, Signature(Secret1, p)) : p \in SignedPayloads }
    \cup { Delivery(W1, p, Signature(Str("guess"), p)) : p \in SignedPayloads }
    \cup { Delivery(W1, p, Signature(Secret1, EmptyPayload)) : p \in SignedPayloads }
    \cup { Delivery(W2, EmptyPayload, NoSignature),
           Delivery(Str("w9"), EmptyPayload, NoSignature) }

\* field mappings: every field mapped, and one whose first entry lacks the payload. prefix
FieldMappings ==
    { << <<"progress_percentage", "payload.a">>, <<"current_value", "payload.b">>,
         <<"target_value", "payload.c">> >>,
      << <<"progress_percentage", "a">>, <<"current_value", "payload.b">>,
         <<"comment", "payload.c">> >> }

Objective(id, owner_id, parent, target_value, current_value, progress_percentage) ==
    [id |-> id, owner_id |-> owner_id, organization_id |-> Org1,
     parent_objective_id |-> parent,
     target_value |-> target_value, current_value |-> current_value,
     progress_percentage |-> progress_percentage]

KeyResult(id, objective_id, target_value, current_value, progress_percentage) ==
    [id |-> id, objective_id |-> objective_id, target_value |-> target_value,
     current_value |-> current_value, progress_percentage |-> progress_percentage]

WebhookIntegration(id, objective_id, field_mapping, status) ==
    [id |-> id, objective_id |-> objective_id, webhook_secret |-> Secret1,
     field_mapping |-> field_mapping, status |-> Str(status),
     failure_count |-> Zero, last_received_at |-> Null]

User(id, name, email) ==
    [id |-> id, name |-> name, email |-> email, organization_id |-> Org1,
     role |-> Str("Team Member")]

NoBody == [target_value |-> Undefined, current_value |-> Undefined,
           progress_percentage |-> Undefined]

\* what is remembered of the request served before the last one
Previous(request) ==
    [op |-> request.op, id |-> request.id, payload |-> request.payload,
     signature |-> request.signature]

\* a served request: its inputs, its response (status and, for a listing, rows), the
\* tables before it and the request before it
Request(n, op, status, rows, id, payload, signature, content, user_id, body, before, uuidBefore, prev) ==
    [n |-> n, op |-> op, status |-> status, rows |-> rows, id |-> id, payload |-> payload,
     signature |-> signature, content |-> content, user_id |-> user_id, body |-> body,
     before |-> before, uuidBefore |-> uuidBefore, prev |-> prev]

\* no request has been served yet
NoRequest(before) ==
    Request(0, "none", 0, <<>>, Null, EmptyPayload, NoSignature, <<>>, Null, NoBody,
            before, 0,
            [op |-> "none", id |-> Null, payload |-> EmptyPayload,
             signature |-> NoSignature])

\* o1 is a child of o2; o2 has the key result k1 and is rolled up
InitTables ==
    /\ \E o1 \in { Objective(O1, U1, O2, Hundred, Int2Num(40), Int2Num(40)),
                    Objective(O1, U1, O2, Null, Null, Zero) } :
            objectives = <<o1, Objective(O2, U1, Null, Hundred, Int2Num(50), Int2Num(50))>>
    /\ key_results = <<KeyResult(K1, O2, Hundred, Int2Num(50), Int2Num(50))>>
    /\ \E m \in FieldMappings :
            webhook_integrations = <<WebhookIntegration(W1, O1, m, "active"),
                                     WebhookIntegration(W2, O2, m, "inactive")>>
    /\ webhook_events = <<>>
    /\ progress_updates = <<>>
    /\ comments = <<>>
    /\ notifications = <<>>
    /\ clock = 0
    /\ uuidCounter = 0

Init ==
    /\ InitTables
    /\ users = <<User(U1, <<"a">>, <<"a", "@", "b">>)>>
    /\ objective_contributors = <<>>
    /\ objective_subscriptions = <<>>
    /\ invitations = <<>>
    /\ faults = {}
    /\ last = NoRequest(DB)
    /\ inflight = <<>>

\* the result of a request becomes the tables, and the request is recorded as the last
Commit(op, result, id, payload, signature, content, user_id, body) ==
    /\ last.n < MaxRequests
    /\ objectives' = result.db.objectives
    /\ key_results' = result.db.key_results
    /\ webhook_integrations' = result.db.webhook_integrations
    /\ webhook_events' = result.db.webhook_events
    /\ progress_updates' = result.db.progress_updates
    /\ comments' = result.db.comments
    /\ users' = result.db.users
    /\ objective_contributors' = result.db.objective_contributors
    /\ objective_subscriptions' = result.db.objective_subscriptions
    /\ notifications' = result.db.notifications
    /\ invitations' = result.db.invitations
    /\ UNCHANGED <<faults, clock>>
    /\ uuidCounter' = result.uuids
    /\ last' = Request(last.n + 1, op, result.status,
                       IF "rows" \in DOMAIN result THEN result.rows ELSE <<>>,
                       id, payload, signature, content, user_id, body, DB, uuidCounter,
                       Previous(last))

\* a request served without another request's step in between
Serve(op, result, id, payload, signature, content, user_id, body) ==
    /\ Commit(op, result, id, payload, signature, content, user_id, body)
    /\ UNCHANGED inflight

DeliverWebhook ==
    \E d \in Deliveries :
        Serve("webhook",
              WebhookReceiver(DB, uuidCounter, d.webhookId, d.payload, d.signature),
              d.webhookId, d.payload, d.signature, <<>>, Null, NoBody)

ObjectiveBodies ==
    { [target_value |-> Zero, current_value |-> Undefined, progress_percentage |-> Undefined],
      [target_value |-> Int2Num(-50), current_value |-> Undefined, progress_percentage |-> Undefined],
      [target_value |-> Undefined, current_value |-> Int2Num(30), progress_percentage |-> Undefined] }

UpdateObjectiveRequest ==
    \E id \in {O1, O2}, body \in ObjectiveBodies :
        Serve("putObjective",
              PutObjective(DB, uuidCounter, id, body.target_value, body.current_value),
              id, EmptyPayload, NoSignature, <<>>, Null, body)

Next == DeliverWebhook \/ UpdateObjectiveRequest

Spec == Init /\ [][Next]_vars

-----------------------------------------------------------------------------
(* Key-result requests and the rollup they trigger.                        *)

KeyResultCount == Len(key_results)

\* bodies of POST /api/objectives/:id/key-results
NewKeyResultBodies ==
    { [target_value |-> Hundred, current_value |-> Int2Num(25), progress_percentage |-> Undefined],
      [target_value |-> Int2Num(3), current_value |-> Int2Num(1), progress_percentage |-> Undefined],
      [target_value |-> Undefined, current_value |-> Undefined, progress_percentage |-> Undefined] }

\* bodies of PUT /api/key-results/:id
KeyResultBodies ==
    { [target_value |-> Undefined, current_value |-> Undefined, progress_percentage |-> Int2Num(80)],
      [target_value |-> Undefined, current_value |-> Int2Num(10), progress_percentage |-> Undefined],
      [target_value |-> Int2Num(40), current_value |-> Int2Num(10), progress_percentage |-> Null] }

KeyResultIds == { key_results[i].id : i \in 1..Len(key_results) } \cup {Str("k9")}

CreateKeyResultRequest ==
    /\ KeyResultCount < MaxKeyResults
    /\ \E id \in {O1, O2}, body \in NewKeyResultBodies :
        Serve("createKeyResult",
              CreateKeyResult(DB, uuidCounter, id, body.target_value, body.current_value),
              id, EmptyPayload, NoSignature, <<>>, Null, body)

UpdateKeyResultRequest ==
    \E id \in KeyResultIds, body \in KeyResultBodies :
        Serve("updateKeyResult",
              UpdateKeyResult(DB, uuidCounter, id, body.target_value, body.current_value,
                              body.progress_percentage),
              id, EmptyPayload, NoSignature, <<>>, Null, body)

DeleteKeyResultRequest ==
    \E id \in KeyResultIds :
        Serve("deleteKeyResult", DeleteKeyResult(DB, uuidCounter, id),
              id, EmptyPayload, NoSignature, <<>>, Null, NoBody)

NextRollup ==
    \/ CreateKeyResultRequest
    \/ UpdateKeyResultRequest
    \/ DeleteKeyResultRequest
    \/ UpdateObjectiveRequest

SpecRollup == Init /\ [][NextRollup]_vars

-----------------------------------------------------------------------------
(* Every operation that writes an objective's progress, one after another. *)

\* bodies of PATCH /api/objectives/:id/progress
ProgressBodies ==
    { [target_value |-> Undefined, current_value |-> Int2Num(30), progress_percentage |-> Undefined],
      [target_value |-> Undefined, current_value |-> Int2Num(150), progress_percentage |-> Undefined] }

PatchProgressRequest ==
    \E id \in {O1, O2}, body \in ProgressBodies :
        Serve("patchProgress",
              PatchProgress(DB, uuidCounter, id, body.current_value, Undefined),
              id, EmptyPayload, NoSignature, <<>>, Null, body)

\* no objective has progress of its own yet: o1 has no key result and stands at 0,
\* o2 stands at the progress of its one key result
InitProgress ==
    /\ Init
    /\ objectives[1].progress_percentage = Zero

NextProgress ==
    \/ CreateKeyResultRequest
    \/ UpdateKeyResultRequest
    \/ DeleteKeyResultRequest
    \/ UpdateObjectiveRequest
    \/ PatchProgressRequest
    \/ DeliverWebhook

SpecProgress == InitProgress /\ [][NextProgress]_vars

-----------------------------------------------------------------------------
(* Deliveries and the event history read back.                             *)

\* query strings of GET /api/webhooks/:id/events
EventQueries ==
    { [limit |-> l, offset |-> o] : l \in {Undefined, Int2Num(1)},
                                    o \in {Undefined, Int2Num(1)} }

GetEventsRequest ==
    \E id \in {W1, W2}, query \in EventQueries :
        Serve("getEvents", GetWebhookEvents(DB, uuidCounter, id, query.limit, query.offset),
              id, EmptyPayload, NoSignature, <<>>, Null, query)

NextEvents == DeliverWebhook \/ GetEventsRequest

SpecEvents == Init /\ [][NextEvents]_vars

-----------------------------------------------------------------------------
(* A delivery and the deletion of its objective.  The receiver awaits the  *)
(* database after it has read the integration, so another request can be   *)
(* served between the read and the rest of the handler.                    *)

\* the receiver's lookup finds an active integration and the signature, if any, verifies
Admitted(db, webhookId, payload, signature) ==
    LET webhookIntegration == DbGet(db, "webhook_integrations", "id", webhookId)
    IN /\ webhookIntegration # <<>>
       /\ webhookIntegration[1].status = Str("active")
       /\ \/ ~signature.present
          \/ VerifyWebhookSignature(payload, SignatureHash(signature),
                                    webhookIntegration[1].webhook_secret)

\* the receiver up to its event insert: the integration is read and the delivery validated
BeginDelivery ==
    \E d \in Deliveries :
        /\ inflight = <<>>
        /\ last.n < MaxRequests
        /\ Admitted(DB, d.webhookId, d.payload, d.signature)
        /\ inflight' = <<[webhookIntegration |->
                              DbGet(DB, "webhook_integrations", "id", d.webhookId)[1],
                          payload |-> d.payload, signature |-> d.signature]>>
        /\ UNCHANGED <<objectives, key_results, webhook_integrations, webhook_events,
                       progress_updates, comments, users, objective_contributors,
                       objective_subscriptions, notifications, invitations, faults, clock,
                       uuidCounter, last>>

\* the receiver from its event insert on, with the integration it read before
ContinueDelivery ==
    /\ inflight # <<>>
    /\ Commit("webhook",
              WebhookProcess(DB, uuidCounter, inflight[1].webhookIntegration,
                             inflight[1].payload),
              inflight[1].webhookIntegration.id, inflight[1].payload,
              inflight[1].signature, <<>>, Null, NoBody)
    /\ inflight' = <<>>

DeleteObjectiveRequest ==
    \E id \in {O1, O2} :
        Serve("deleteObjective", DeleteObjective(DB, uuidCounter, id),
              id, EmptyPayload, NoSignature, <<>>, Null, NoBody)

NextDelete == BeginDelivery \/ ContinueDelivery \/ DeleteObjectiveRequest

SpecDelete == Init /\ [][NextDelete]_vars

-----------------------------------------------------------------------------
(* Overlapping key-result updates.  PUT /api/key-results/:id writes the    *)
(* key result and then calls calculateObjectiveProgress, which awaits its  *)
(* two reads and its write one after the other: another request's steps    *)
(* can fall between them.                                                  *)

\* the handler up to its call of calculateObjectiveProgress: the key result is written
BeginKeyResultUpdate ==
    \E id \in { key_results[i].id : i \in 1..Len(key_results) }, body \in KeyResultBodies :
        /\ last.n + Len(inflight) < MaxRequests
        /\ key_results' = UpdateKeyResult(DB, uuidCounter, id, body.target_value,
                                          body.current_value,
                                          body.progress_percentage).db.key_results
        /\ inflight' = Append(inflight,
                              [id |-> id, body |-> body, stage |-> "written",
                               objectiveId |-> DbGet(DB, "key_results", "id", id)[1].objective_id,
                               objective |-> <<>>, keyResults |-> <<>>])
        /\ UNCHANGED <<objectives, webhook_integrations, webhook_events,
                       progress_updates, comments, users, objective_contributors,
                       objective_subscriptions, notifications, invitations, faults, clock,
                       uuidCounter, last>>

\* calculateObjectiveProgress reads the objective and its key results
ReadRollup ==
    \E i \in 1..Len(inflight) :
        /\ inflight[i].stage = "written"
        /\ inflight' = [inflight EXCEPT ![i] =
                [@ EXCEPT !.stage = "read",
                          !.objective = DbGet(DB, "objectives", "id",
                                             inflight[i].objectiveId),
                          !.keyResults = DbAll(DB, "key_results", "objective_id",
                                               inflight[i].objectiveId)]]
        /\ UNCHANGED <<objectives, key_results, webhook_integrations, webhook_events,
                       progress_updates, comments, users, objective_contributors,
                       objective_subscriptions, notifications, invitations, faults, clock,
                       uuidCounter, last>>

\* calculateObjectiveProgress writes the rollup of what it read, and the request is answered
WriteRollup ==
    \E i \in 1..Len(inflight) :
        /\ inflight[i].stage = "read"
        /\ Commit("updateKeyResult",
                  Response(IF inflight[i].objective = <<>> THEN DB
                           ELSE SupabaseUpdate(DB, "objectives",
                                    RollupUpdates(inflight[i].objective[1],
                                                  inflight[i].keyResults),
                                    "id", inflight[i].objectiveId).db,
                           200, uuidCounter),
                  inflight[i].id, EmptyPayload, NoSignature, <<>>, Null, inflight[i].body)
        /\ inflight' = SubSeq(inflight, 1, i - 1) \o SubSeq(inflight, i + 1, Len(inflight))

NextRace == BeginKeyResultUpdate \/ ReadRollup \/ WriteRollup

SpecRace == Init /\ [][NextRace]_vars

-----------------------------------------------------------------------------
(* Comments and the notifications they trigger.                            *)

\* u1 and u2 have the same name up to case; u3's name is the local part of u1's email
\* an objective with contributors and subscribers
InitStakeholders ==
    /\ InitTables
    /\ invitations = <<>>
    /\ objectives[1].target_value = Hundred
    /\ webhook_integrations[1].field_mapping[1][2] = "payload.a"
    /\ users = <<User(U1, <<"a", "b">>, <<"b", "@", "a">>),
                 User(U2, <<"A", "b">>, <<"a", "@", "a">>),
                 User(U3, <<"b">>, <<"a", "@", "b">>)>>
    /\ \E c \in SUBSET {U2, U3} :
            objective_contributors =
                SelectSeq(<<[objective_id |-> O1, user_id |-> U2],
                            [objective_id |-> O1, user_id |-> U3]>>,
                          LAMBDA r : r.user_id \in c)
    /\ \E c \in SUBSET {U1, U3} :
            objective_subscriptions =
                SelectSeq(<<[id |-> Str("s1"), objective_id |-> O1, user_id |-> U1],
                            [id |-> Str("s2"), objective_id |-> O1, user_id |-> U3],
                            [id |-> Str("s3"), objective_id |-> O2, user_id |-> U2]>>,
                          LAMBDA r : r.objective_id = O2 \/ r.user_id \in c)

InitNotify ==
    /\ InitStakeholders
    /\ faults = {}
    /\ last = NoRequest(DB)
    /\ inflight = <<>>

\* the texts of the comments posted
Contents ==
    { <<"a", "b">>,
      <<"@", "a", "b">>,
      <<"@", "A", "B", " ", "@", "a", "b">>,
      <<"@", "b", " ", "a">>,
      <<"@", "a", "@", "b">>,
      <<"@", "b", "@", "a">> }

PostCommentRequest ==
    \E id \in {O1}, user_id \in {U1, U2, U3}, content \in Contents :
        Serve("comment", PostComment(DB, uuidCounter, id, user_id, content),
              id, EmptyPayload, NoSignature, content, user_id, NoBody)

NextNotify == PostCommentRequest

SpecNotify == InitNotify /\ [][NextNotify]_vars

-----------------------------------------------------------------------------
(* Comments and progress patches while the database service fails the      *)
(* notification inserts of some users.                                     *)

InitFaults ==
    /\ InitStakeholders
    /\ Len(objective_contributors) = 2
    /\ faults \in {{U3}, {U1, U2}}
    /\ last = NoRequest(DB)
    /\ inflight = <<>>

NextFaults == PostCommentRequest \/ PatchProgressRequest

SpecFaults == InitFaults /\ [][NextFaults]_vars

-----------------------------------------------------------------------------
(* Requests that change who contributes to an objective and who follows it. *)

RemoveContributorRequest ==
    \E id \in {O1, O2}, userId \in {U2, U3} :
        Serve("removeContributor", RemoveContributor(DB, uuidCounter, id, userId),
              id, EmptyPayload, NoSignature, <<>>, userId, NoBody)

SubscribeRequest ==
    \E id \in {O1, O2}, i \in 1..Len(users) :
        Serve("subscribe", Subscribe(DB, uuidCounter, id, users[i]),
              id, EmptyPayload, NoSignature, <<>>, users[i].id, NoBody)

UnsubscribeRequest ==
    \E id \in {O1, O2}, i \in 1..Len(users) :
        Serve("unsubscribe", Unsubscribe(DB, uuidCounter, id, users[i]),
              id, EmptyPayload, NoSignature, <<>>, users[i].id, NoBody)

NextMembers == RemoveContributorRequest \/ SubscribeRequest \/ UnsubscribeRequest

SpecMembers == InitNotify /\ [][NextMembers]_vars

-----------------------------------------------------------------------------
(* Two organizations: org1 with its only user, an Admin; org2 with an Admin *)
(* and a Manager.  Each has a pending invitation that expires at time 1.   *)

MaxClock == 2

Member(id, email, organization_id, role) ==
    [User(id, <<>>, email) EXCEPT !.organization_id = organization_id, !.role = Str(role)]

Invitation(id, token, email, organization_id, invited_by) ==
    [id |-> Str(id), token |-> Str(token), email |-> email,
     organization_id |-> organization_id, invited_by |-> invited_by,
     role |-> Str("Team Member"), status |-> Str("pending"), expires_at |-> Int2Num(1)]

InitTenants ==
    /\ InitTables
    /\ users = <<Member(U1, Str("a@x"), Org1, "Admin"),
                 Member(U2, Str("b@y"), Org2, "Admin"),
                 Member(U3, Str("c@y"), Org2, "Manager")>>
    /\ invitations = <<Invitation("i1", "t1", Str("d@x"), Org1, U1),
                       Invitation("i2", "t2", Str("e@y"), Org2, U2)>>
    /\ objective_contributors = <<>>
    /\ objective_subscriptions = <<>>
    /\ faults = {}
    /\ last = NoRequest(DB)
    /\ inflight = <<>>

\* time passes
Tick ==
    /\ clock < MaxClock
    /\ clock' = clock + 1
    /\ UNCHANGED <<objectives, key_results, webhook_integrations, webhook_events,
                   progress_updates, comments, users, objective_contributors,
                   objective_subscriptions, notifications, invitations, faults,
                   uuidCounter, last, inflight>>

\* the role and name of the body of a user update
UserBody(role, name) == [role |-> role, name |-> name]

UpdateUserRoleRequest ==
    \E c \in 1..Len(users), id \in {U1, U2, U3},
       role \in {Str("Admin"), Str("Viewer"), Str("Owner"), Undefined} :
        Serve("updateUserRole", UpdateUserRole(DB, uuidCounter, id, role, users[c]),
              id, EmptyPayload, NoSignature, <<>>, users[c].id, UserBody(role, Undefined))

UpdateUserRequest ==
    \E c \in 1..Len(users), id \in {U1, U2, U3},
       body \in {UserBody(Str("Viewer"), Undefined), UserBody(Undefined, Str("n")),
                 UserBody(Str("Admin"), Str("n")), UserBody(Undefined, Undefined)} :
        Serve("updateUser",
              UpdateUser(DB, uuidCounter, id, body.role, body.name, users[c]),
              id, EmptyPayload, NoSignature, <<>>, users[c].id, body)

LookupInvitationRequest ==
    \E token \in {Str("t1"), Str("t2")} :
        Serve("lookupInvitation", LookupInvitation(DB, uuidCounter, token),
              token, EmptyPayload, NoSignature, <<>>, Null, NoBody)

AcceptInvitationRequest ==
    \E token \in {Str("t1"), Str("t2"), Str("t9")}, accepted \in BOOLEAN :
        Serve("acceptInvitation",
              AcceptInvitation(DB, uuidCounter, token, Str("n"), accepted, clock),
              token, EmptyPayload, NoSignature, <<>>, Null, NoBody)

CancelInvitationRequest ==
    \E c \in 1..Len(users), id \in {Str("i1"), Str("i2"), Str("i9")} :
        Serve("cancelInvitation", CancelInvitation(DB, uuidCounter, id, users[c]),
              id, EmptyPayload, NoSignature, <<>>, users[c].id, NoBody)

NextTenants ==
    \/ Tick
    \/ UpdateUserRoleRequest
    \/ UpdateUserRequest
    \/ LookupInvitationRequest
    \/ AcceptInvitationRequest
    \/ CancelInvitationRequest

SpecTenants == InitTenants /\ [][NextTenants]_vars

-----------------------------------------------------------------------------
(* Properties.  They are stated over the request served last: its inputs   *)
(* and the tables before it (last.before) against the tables now.          *)

\* the rows a table has gained since the last request began
NewRows(table) == SubSeq(DB[table], Len(last.before[table]) + 1, Len(DB[table]))

\* the table still starts with the rows it had
KeepsRows(table) ==
    /\ Len(DB[table]) >= Len(last.before[table])
    /\ SubSeq(DB[table], 1, Len(last.before[table])) = last.before[table]

\* a number, with an unset value counted as 0
NumOrZero(v) == IF IsNum(v) THEN v ELSE Zero

LastIntegration == DbGet(last.before, "webhook_integrations", "id", last.id)

DeliveredToActive ==
    /\ last.op = "webhook"
    /\ LastIntegration # <<>>
    /\ LastIntegration[1].status = Str("active")

\* the signature header is there and is not the digest of the payload under the secret
SignatureMismatch ==
    /\ DeliveredToActive
    /\ last.signature.present
    /\ last.signature.hash # [key |-> LastIntegration[1].webhook_secret, msg |-> last.payload]

TargetBefore == DbGet(last.before, "objectives", "id", LastIntegration[1].objective_id)

TargetAfter == DbGet(DB, "objectives", "id", LastIntegration[1].objective_id)

IntegrationAfter == DbGet(DB, "webhook_integrations", "id", last.id)

\* C1: a delivery whose signature does not match leaves the target objective row as it
\* was and appends neither a progress update nor a comment
C1_InvalidSignatureLeavesObjective ==
    SignatureMismatch =>
        /\ TargetAfter = TargetBefore
        /\ progress_updates = last.before.progress_updates
        /\ comments = last.before.comments

\* a forged delivery whose payload would have set progress, current and target value
C1_Witness ==
    /\ SignatureMismatch
    /\ TargetBefore # <<>>
    /\ last.payload = Payload(Int2Num(150), Int2Num(80), Int2Num(200), Undefined)
    /\ LastIntegration[1].field_mapping[1] = <<"progress_percentage", "payload.a">>
    /\ Len(webhook_events) > Len(last.before.webhook_events)

\* C2: a delivery whose signature does not match is answered 401 and leaves exactly one
\* new webhook event, with processed = false and error_message = "Invalid signature"
C2_InvalidSignatureLogged ==
    SignatureMismatch =>
        /\ last.status = 401
        /\ KeepsRows("webhook_events")
        /\ Len(NewRows("webhook_events")) = 1
        /\ NewRows("webhook_events")[1].webhook_integration_id = last.id
        /\ NewRows("webhook_events")[1].processed = Bool(FALSE)
        /\ NewRows("webhook_events")[1].error_message = Str("Invalid signature")

\* C3: a delivery whose signature does not match raises the integration's
\* failure_count by exactly 1
C3_FailureCountIncremented ==
    SignatureMismatch =>
        IntegrationAfter[1].failure_count
            = Add(LastIntegration[1].failure_count, Int2Num(1))

\* the delivery passed lookup and signature verification and its objective exists
Accepted == DeliveredToActive /\ ~SignatureMismatch /\ TargetBefore # <<>>

Mapped == ApplyFieldMapping(last.payload, LastIntegration[1].field_mapping)

MapsValue ==
    /\ Accepted
    /\ \E f \in {"progress_percentage", "current_value", "target_value"} :
            Mapped[f] # Undefined

\* C6: a delivery that maps progress_percentage, current_value or target_value appends
\* exactly one progress update (no user, previous_value the current value before,
\* new_value the current value after, unset counted as 0) and exactly one comment (no
\* user) for the objective; current_value = 80 onto target_value = 100 stores progress 80
C6_OneProgressUpdateOneComment ==
    MapsValue =>
        /\ KeepsRows("progress_updates")
        /\ Len(NewRows("progress_updates")) = 1
        /\ NewRows("progress_updates")[1].objective_id = TargetBefore[1].id
        /\ NewRows("progress_updates")[1].user_id = Null
        /\ NewRows("progress_updates")[1].previous_value
                = NumOrZero(TargetBefore[1].current_value)
        /\ NewRows("progress_updates")[1].new_value
                = NumOrZero(TargetAfter[1].current_value)
        /\ KeepsRows("comments")
        /\ Len(NewRows("comments")) = 1
        /\ NewRows("comments")[1].objective_id = TargetBefore[1].id
        /\ NewRows("comments")[1].user_id = Null
        /\ (/\ Mapped.current_value = Int2Num(80)
            /\ Mapped.target_value = Undefined
            /\ TargetBefore[1].target_value = Hundred
            => TargetAfter[1].progress_percentage = Int2Num(80))

\* current_value = 80 alone is mapped onto an objective with target 100 and current 40
C6_Witness ==
    /\ MapsValue
    /\ Mapped.current_value = Int2Num(80)
    /\ Mapped.target_value = Undefined
    /\ Mapped.progress_percentage = Undefined
    /\ TargetBefore[1].target_value = Hundred
    /\ TargetBefore[1].current_value = Int2Num(40)
    /\ TargetAfter[1].progress_percentage = Int2Num(80)
    /\ NewRows("progress_updates")[1].new_value = Int2Num(80)

MapsOnlyProgress ==
    /\ Accepted
    /\ Mapped.progress_percentage # Undefined
    /\ Mapped.current_value = Undefined
    /\ Mapped.target_value = Undefined

\* max(0, min(100, p))
Clamped(p) == IF p.n < 0 THEN Zero ELSE IF p.n > 100 * p.d THEN Hundred ELSE p

\* C7: a delivery that maps only progress_percentage = p stores max(0, min(100, p))
C7_ProgressClamped ==
    MapsOnlyProgress =>
        TargetAfter[1].progress_percentage = Clamped(Mapped.progress_percentage)

\* 150 was mapped and 100 is stored
C7_Witness ==
    /\ MapsOnlyProgress
    /\ Mapped.progress_percentage = Int2Num(150)
    /\ TargetAfter[1].progress_percentage = Hundred

MapsCurrentAndTarget ==
    /\ Accepted
    /\ Mapped.current_value # Undefined
    /\ Mapped.target_value # Undefined
    /\ Mapped.target_value.n > 0

\* min(100, c / t * 100) for t > 0
PercentOf(c, t) ==
    IF c.n * t.d * 100 > 100 * c.d * t.n THEN Hundred ELSE Num(c.n * t.d * 100, c.d * t.n)

\* C8: a delivery that maps current_value = c and target_value = t > 0 stores
\* progress min(100, c / t * 100): against the new target and the new current value
C8_ProgressAgainstNewTarget ==
    MapsCurrentAndTarget =>
        TargetAfter[1].progress_percentage
            = PercentOf(Mapped.current_value, Mapped.target_value)

\* 80 of 200 arrives at an objective that stood at 40 of 100: 40 is stored
C8_Witness ==
    /\ MapsCurrentAndTarget
    /\ Mapped.current_value = Int2Num(80)
    /\ Mapped.target_value = Int2Num(200)
    /\ TargetBefore[1].target_value = Hundred
    /\ TargetBefore[1].current_value = Int2Num(40)
    /\ TargetAfter[1].progress_percentage = Int2Num(40)

-----------------------------------------------------------------------------
(* Properties of the rollup, over the key-result request served last.      *)

\* the objective the last request rolled up, as a sequence of at most one id
RolledUp ==
    IF last.op = "createKeyResult" /\ last.status = 201 THEN <<last.id>>
    ELSE IF /\ last.op \in {"updateKeyResult", "deleteKeyResult"}
            /\ last.status = 200
            /\ DbGet(last.before, "key_results", "id", last.id) # <<>>
    THEN <<DbGet(last.before, "key_results", "id", last.id)[1].objective_id>>
    ELSE <<>>

RolledUpObjective == DbGet(DB, "objectives", "id", RolledUp[1])

RolledUpKeyResults == DbAll(DB, "key_results", "objective_id", RolledUp[1])

RECURSIVE SumOfProgress(_)
SumOfProgress(keyResults) ==
    IF keyResults = <<>> THEN Zero
    ELSE Add(NumOrZero(keyResults[1].progress_percentage), SumOfProgress(Tail(keyResults)))

\* the arithmetic mean of the key results' progress, a missing value counted as 0
MeanOfProgress(keyResults) ==
    LET sum == SumOfProgress(keyResults)
    IN Num(sum.n, sum.d * Len(keyResults))

\* (mean / 100) x target
ShareOf(mean, target) == Num(mean.n * target.n, mean.d * 100 * target.d)

RolledUpWithKeyResults ==
    /\ RolledUp # <<>>
    /\ RolledUpObjective # <<>>
    /\ Len(RolledUpKeyResults) >= 1

\* C4 as stated: after a rollup with N >= 1 key results the stored progress is the mean
\* of their progress and the stored current_value is (mean/100) x target_value, with 100
\* in place of a target_value that is unset or <= 0
C4_RollupMeanTargetNotPositive ==
    RolledUpWithKeyResults =>
        LET mean == MeanOfProgress(RolledUpKeyResults)
            target == RolledUpObjective[1].target_value
        IN /\ RolledUpObjective[1].progress_percentage = mean
           /\ RolledUpObjective[1].current_value
                = ShareOf(mean, IF IsNum(target) /\ target.n > 0 THEN target ELSE Hundred)

\* C4 amended: after a rollup with N >= 1 key results the stored progress is the mean of
\* their progress and the stored current_value is (mean/100) x target_value, with 100 in
\* place of a target_value that is unset or 0; a negative target_value is used as it is
C4_RollupMean ==
    RolledUpWithKeyResults =>
        LET mean == MeanOfProgress(RolledUpKeyResults)
            target == RolledUpObjective[1].target_value
        IN /\ RolledUpObjective[1].progress_percentage = mean
           /\ RolledUpObjective[1].current_value
                = ShareOf(mean, IF IsNum(target) /\ target.n # 0 THEN target ELSE Hundred)

\* a key result at 80 is rolled up into an objective whose target_value is -50
C4_Witness ==
    /\ RolledUpWithKeyResults
    /\ RolledUpObjective[1].target_value = Int2Num(-50)
    /\ RolledUpObjective[1].progress_percentage = Int2Num(80)
    /\ RolledUpObjective[1].current_value = Int2Num(-40)

\* C5: after a rollup on an existing objective with no key result, the deletion of its
\* last key result included, progress_percentage and current_value are both 0
C5_RollupResets ==
    (RolledUp # <<>> /\ RolledUpObjective # <<>> /\ Len(RolledUpKeyResults) = 0) =>
        /\ RolledUpObjective[1].progress_percentage = Zero
        /\ RolledUpObjective[1].current_value = Zero

\* the last key result of an objective that stood at 50 is deleted
C5_Witness ==
    /\ last.op = "deleteKeyResult"
    /\ RolledUp # <<>>
    /\ RolledUpObjective # <<>>
    /\ Len(RolledUpKeyResults) = 0
    /\ DbGet(last.before, "objectives", "id", RolledUp[1])[1].progress_percentage = Int2Num(50)
    /\ DbGet(last.before, "objectives", "id", RolledUp[1])[1].current_value = Int2Num(50)
    /\ RolledUpObjective[1].current_value = Zero

-----------------------------------------------------------------------------
(* Properties of the notifications a posted comment creates.               *)

Posted == last.op = "comment" /\ last.status = 201

CommentedObjective == DbGet(last.before, "objectives", "id", last.id)[1]

ContributorIds ==
    { last.before.objective_contributors[i].user_id :
        i \in { j \in 1..Len(last.before.objective_contributors) :
                    last.before.objective_contributors[j].objective_id = last.id } }

SubscriberIds ==
    { last.before.objective_subscriptions[i].user_id :
        i \in { j \in 1..Len(last.before.objective_subscriptions) :
                    last.before.objective_subscriptions[j].objective_id = last.id } }

\* ({owner} union contributors union subscribers) minus {actor}
ExpectedStakeholders ==
    ({CommentedObjective.owner_id} \cup ContributorIds \cup SubscriberIds) \ {last.user_id}

\* how many notifications of a type the last request created for a user
Notified(type, userId) ==
    Cardinality({ i \in 1..Len(NewRows("notifications")) :
                    /\ NewRows("notifications")[i].type = Str(type)
                    /\ NewRows("notifications")[i].user_id = userId })

UserIds == { last.before.users[i].id : i \in 1..Len(last.before.users) }

\* C9: the fan-out of a posted comment creates exactly one 'comment' notification for
\* each distinct user in ({owner} union contributors union subscribers) minus {actor},
\* and none for anyone else
C9_OnePerStakeholder ==
    Posted =>
        /\ \A u \in UserIds :
                Notified("comment", u) = IF u \in ExpectedStakeholders THEN 1 ELSE 0
        /\ \A i \in 1..Len(NewRows("notifications")) :
                NewRows("notifications")[i].type = Str("comment")
                    => NewRows("notifications")[i].user_id \in ExpectedStakeholders

\* the owner comments on their own objective; u3 is both contributor and subscriber
C9_Witness ==
    /\ Posted
    /\ last.user_id = CommentedObjective.owner_id
    /\ U3 \in ContributorIds \cap SubscriberIds
    /\ U2 \in ContributorIds
    /\ Notified("comment", U3) = 1
    /\ Notified("comment", U2) = 1
    /\ Notified("comment", last.user_id) = 0

\* the words of a text, split at blanks, from index i on; word is the one being read
RECURSIVE WordsFrom(_, _, _)
WordsFrom(content, i, word) ==
    IF i > Len(content) THEN (IF word = <<>> THEN {} ELSE {word})
    ELSE IF content[i] = " "
    THEN (IF word = <<>> THEN {} ELSE {word}) \cup WordsFrom(content, i + 1, <<>>)
    ELSE WordsFrom(content, i + 1, Append(word, content[i]))

\* the @tokens of a text: its words that begin with @, without the @
AtTokens(content) ==
    { Tail(w) : w \in { x \in WordsFrom(content, 1, <<>>) : x[1] = "@" /\ Len(x) > 1 } }

\* some @token of the last comment is the user's full name or full email, whatever the case
MentionedByToken(user) ==
    \E token \in AtTokens(last.content) :
        \/ ToLowerCase(token) = ToLowerCase(user.name)
        \/ ToLowerCase(token) = ToLowerCase(user.email)

\* C10: every @token of a posted comment that equals, whatever the case, the full name
\* or the full email of a user other than the commenter creates exactly one 'mention'
\* notification for that user, besides the 'comment' notification the user gets as a
\* stakeholder; the commenter gets no 'mention' notification
C10_MentionNotifies ==
    Posted =>
        \A i \in 1..Len(last.before.users) :
            LET user == last.before.users[i]
            IN /\ (user.id # last.user_id /\ MentionedByToken(user)
                    => /\ Notified("mention", user.id) = 1
                       /\ Notified("comment", user.id)
                            = IF user.id \in ExpectedStakeholders THEN 1 ELSE 0)
               /\ (user.id = last.user_id => Notified("mention", user.id) = 0)

-----------------------------------------------------------------------------
(* Properties of an objective's progress across operations.                *)

KeyResultsOf(objectiveId) == DbAll(DB, "key_results", "objective_id", objectiveId)

\* C11: in every state reached by key-result requests, objective updates, progress
\* patches and webhook deliveries served one after another, each objective's
\* progress_percentage is the mean of its key results' progress_percentage when it has
\* a key result, and 0 when it has none
C11_ProgressIsMeanOfKeyResults ==
    \A i \in 1..Len(objectives) :
        objectives[i].progress_percentage
            = IF KeyResultsOf(objectives[i].id) = <<>> THEN Zero
              ELSE MeanOfProgress(KeyResultsOf(objectives[i].id))

\* current / target x 100, and 0 when target <= 0
ProgressOf(current, target) ==
    IF target.n > 0 THEN Num(current.n * 100 * target.d, current.d * target.n) ELSE Zero

\* C12: after a PUT of an objective, a progress patch or a webhook delivery that changed
\* an objective's current_value, the objective's progress_percentage is
\* current_value / target_value x 100, and 0 when target_value <= 0
C12_ProgressFollowsCurrentValue ==
    last.op \in {"putObjective", "patchProgress", "webhook"} =>
        \A i \in 1..Len(objectives) :
            (/\ objectives[i].current_value # last.before.objectives[i].current_value
             /\ IsNum(objectives[i].current_value)
             /\ IsNum(objectives[i].target_value))
            => objectives[i].progress_percentage
                = ProgressOf(objectives[i].current_value, objectives[i].target_value)

-----------------------------------------------------------------------------
(* Properties of the receiver's bookkeeping.                               *)

\* the last two requests were the same delivery, to the same integration, and nothing
\* was served before them
Replayed ==
    /\ last.n = 2
    /\ last.prev = Previous(last)
    /\ MapsValue

\* C13: the same valid payload delivered twice to the same integration is applied
\* twice and leaves two progress updates, two comments and two webhook events
C13_ReplayLeavesTwoOfEach ==
    Replayed =>
        /\ Len(progress_updates) = 2
        /\ progress_updates[2].new_value = progress_updates[1].new_value
        /\ Len(comments) = 2
        /\ Len(webhook_events) = 2

\* the events of the integration the last request asked for, newest first
StoredEvents == Reverse(DbAll(last.before, "webhook_events", "webhook_integration_id", last.id))

QueryLimit == IF IsNum(last.body.limit) THEN last.body.limit.n ELSE 50

QueryOffset == IF IsNum(last.body.offset) THEN last.body.offset.n ELSE 0

\* C14: GET /api/webhooks/:id/events?limit=L&offset=K returns the integration's events
\* newest first, without the K newest ones, and at most L of them (50 when no limit
\* is given)
C14_EventsPaginated ==
    last.op = "getEvents" =>
        /\ Len(last.rows) <= QueryLimit
        /\ last.rows = SubSeq(StoredEvents, QueryOffset + 1,
                              IF Len(StoredEvents) < QueryOffset + QueryLimit
                              THEN Len(StoredEvents) ELSE QueryOffset + QueryLimit)

\* the delivery named no integration
UnknownWebhook == last.op = "webhook" /\ LastIntegration = <<>>

\* the delivery named an integration that is not active
InactiveWebhook ==
    /\ last.op = "webhook"
    /\ LastIntegration # <<>>
    /\ LastIntegration[1].status # Str("active")

\* C15: a delivery that fails a validation stage (unknown webhook id: 404, inactive
\* integration: 403, invalid signature: 401) leaves every objective as it was and
\* still persists a webhook event for the attempt
C15_ValidationFailureLogged ==
    (UnknownWebhook \/ InactiveWebhook \/ SignatureMismatch) =>
        /\ objectives = last.before.objectives
        /\ last.status = (IF UnknownWebhook THEN 404 ELSE IF InactiveWebhook THEN 403 ELSE 401)
        /\ KeepsRows("webhook_events")
        /\ Len(NewRows("webhook_events")) >= 1

\* the event row the delivery logged at step 3, as it is now
LoggedEvent == DbGet(DB, "webhook_events", "id", Uuid(last.uuidBefore + 1))

\* C16: after a delivery that passed validation and completed steps 1-7, the event
\* logged for it has processed = true, value_before = the objective's current_value
\* before the delivery (0 if unset) and value_after = its current_value after it
C16_EventMarkedProcessed ==
    Accepted =>
        /\ LoggedEvent # <<>>
        /\ LoggedEvent[1].processed = Bool(TRUE)
        /\ LoggedEvent[1].value_before = NumOrZero(TargetBefore[1].current_value)
        /\ LoggedEvent[1].value_after = NumOrZero(TargetAfter[1].current_value)

\* C17: a delivery that passed validation is answered 200 and leaves the integration's
\* failure_count at 0; any other delivery leaves failure_count as it was or one higher
C17_FailureCountReset ==
    /\ Accepted => (last.status = 200 /\ IntegrationAfter[1].failure_count = Zero)
    /\ (DeliveredToActive /\ ~Accepted) =>
            IntegrationAfter[1].failure_count
                \in {LastIntegration[1].failure_count,
                     Add(LastIntegration[1].failure_count, Int2Num(1))}

\* the target objective of the delivery in flight no longer exists
TargetMissing ==
    /\ inflight # <<>>
    /\ DbGet(DB, "objectives", "id", inflight[1].webhookIntegration.objective_id) = <<>>

\* C18: a delivery that passes validation while the objective its integration
\* targets does not exist is answered 404, and the event logged for it is
\* marked processed with the error message "Objective not found"
C18_MissingObjectiveAnswered404 ==
    [][(TargetMissing /\ inflight' = <<>>) =>
            /\ last'.status = 404
            /\ \E i \in 1..Len(webhook_events') :
                    /\ webhook_events'[i].webhook_integration_id
                            = inflight[1].webhookIntegration.id
                    /\ webhook_events'[i].processed = Bool(TRUE)
                    /\ webhook_events'[i].error_message = Str("Objective not found")]_vars

\* a delivery that passed validation and did not end with the success response
Threw == Accepted /\ last.status # 200

\* C19: when a persistence call of steps 4-8 throws, the delivery is answered 500, a
\* webhook event with processed = false and the exception's message is recorded, and
\* the integration's failure_count goes up by exactly 1
C19_ExceptionLoggedAndCounted ==
    Threw =>
        /\ last.status = 500
        /\ \E i \in 1..Len(NewRows("webhook_events")) :
                /\ NewRows("webhook_events")[i].processed = Bool(FALSE)
                /\ NewRows("webhook_events")[i].error_message = DbErrorMessage
        /\ IntegrationAfter[1].failure_count
                = Add(LastIntegration[1].failure_count, Int2Num(1))

MapsTarget == Accepted /\ Mapped.target_value # Undefined

\* the current value the recomputation is to use: the mapped one, else the stored one
CurrentForRecomputation ==
    IF Mapped.current_value # Undefined THEN Mapped.current_value
    ELSE NumOrZero(TargetBefore[1].current_value)

ProgressBeforeTargetBranch ==
    IF /\ Mapped.current_value # Undefined
       /\ IsNum(TargetBefore[1].target_value)
       /\ TargetBefore[1].target_value.n > 0
    THEN PercentOf(Mapped.current_value, TargetBefore[1].target_value)
    ELSE IF Mapped.progress_percentage # Undefined THEN Clamped(Mapped.progress_percentage)
    ELSE TargetBefore[1].progress_percentage

-----------------------------------------------------------------------------
(* Properties of overlapping key-result updates.                           *)

\* the row of the objective in the objectives table as given
ObjectiveRow(rows, objectiveId) == SelectSeq(rows, LAMBDA r : r.id = objectiveId)

\* the i-th request in flight has read for its rollup and is answered in this step
RollupWritten(i) ==
    /\ inflight[i].stage = "read"
    /\ inflight[i].objective # <<>>
    /\ inflight[i].keyResults # <<>>
    /\ inflight' = SubSeq(inflight, 1, i - 1) \o SubSeq(inflight, i + 1, Len(inflight))

\* C21: the rollup written last wins.  When a key-result update is answered, the
\* objective carries the mean of the key results as that request's rollup read them
\* (and the matching current_value), whatever another request has stored since; so
\* two overlapping updates can end with a progress_percentage that is not the mean of
\* the stored key results
C21_LastRollupWins ==
    [][\A i \in 1..Len(inflight) :
            RollupWritten(i) =>
                LET after == ObjectiveRow(objectives', inflight[i].objectiveId)[1]
                    mean == MeanOfProgress(inflight[i].keyResults)
                IN /\ after.progress_percentage = mean
                   /\ after.current_value
                        = ShareOf(mean, inflight[i].objective[1].target_value)]_vars

\* both updates of the key results of o2 are answered, and o2 does not carry the mean
\* of its stored key results
C21_Witness ==
    /\ last.n = 2
    /\ last.op = "updateKeyResult"
    /\ last.prev.op = "updateKeyResult"
    /\ inflight = <<>>
    /\ KeyResultsOf(O2) # <<>>
    /\ ObjectiveRow(objectives, O2)[1].progress_percentage # MeanOfProgress(KeyResultsOf(O2))

-----------------------------------------------------------------------------
(* Properties of the fan-out when notification inserts fail.               *)

\* the last request was a comment or a progress patch on an objective that exists
FannedOut ==
    /\ last.op \in {"comment", "patchProgress"}
    /\ DbGet(last.before, "objectives", "id", last.id) # <<>>

\* the user the fan-out leaves out: the commenter, or the owner for a patch without user_id
FanOutActor == IF last.op = "comment" THEN last.user_id ELSE CommentedObjective.owner_id

FanOutType == IF last.op = "comment" THEN "comment" ELSE "progress_update"

\* the stakeholders of the fan-out whose insert the service does not fail
Reachable ==
    (({CommentedObjective.owner_id} \cup ContributorIds \cup SubscriberIds) \ {FanOutActor})
        \ last.before.faults

\* C22: when the notification inserts of some users fail, a comment or a progress patch
\* is still answered with its success status, every other stakeholder gets exactly one
\* notification of the fan-out, and the users whose insert fails get none
C22_NotificationFailureContained ==
    FannedOut =>
        /\ last.status = IF last.op = "comment" THEN 201 ELSE 200
        /\ \A u \in UserIds : Notified(FanOutType, u) = IF u \in Reachable THEN 1 ELSE 0

\* u2 comments while the inserts for u1 and u2 fail: the insert for the owner u1 fails,
\* contributor u3 is notified all the same, and the comment is answered 201
C22_Witness ==
    /\ FannedOut
    /\ last.op = "comment"
    /\ last.status = 201
    /\ last.user_id = U2
    /\ last.before.faults = {U1, U2}
    /\ Notified("comment", U1) = 0
    /\ Notified("comment", U3) = 1

-----------------------------------------------------------------------------
(* Properties of contributors and subscriptions.                           *)

\* the rows of a table before the last request that are not of this objective and user
WithoutPair(table) ==
    SelectSeq(last.before[table],
              LAMBDA r : ~(r.objective_id = last.id /\ r.user_id = last.user_id))

\* the caller followed the objective of the URL before the last request
WasSubscribed ==
    \E i \in 1..Len(last.before.objective_subscriptions) :
        /\ last.before.objective_subscriptions[i].objective_id = last.id
        /\ last.before.objective_subscriptions[i].user_id = last.user_id

\* C23: removing a contributor removes only the row of that user on that objective;
\* the other contributors of the objective and the user's rows on other objectives stay
C23_RemovesOnlyThatContributor ==
    last.op = "removeContributor" =>
        objective_contributors = WithoutPair("objective_contributors")

\* C24: a subscribe call on an existing objective is rejected with 400 'Already
\* subscribed' if and only if the caller already follows that objective, and there
\* is at most one subscription per user and objective
C24_RejectedIffSubscribed ==
    /\ (last.op = "subscribe" /\ DbGet(last.before, "objectives", "id", last.id) # <<>>)
            => (last.status = 400 <=> WasSubscribed)
    /\ \A i, j \in 1..Len(objective_subscriptions) :
            (/\ objective_subscriptions[i].user_id = objective_subscriptions[j].user_id
             /\ objective_subscriptions[i].objective_id
                    = objective_subscriptions[j].objective_id) => i = j

\* C25: an unsubscribe call deletes the caller's subscription to the objective of the
\* URL and nothing else, and answers 404 and deletes nothing when there is none
C25_UnsubscribesOnlyThatObjective ==
    last.op = "unsubscribe" =>
        /\ objective_subscriptions = WithoutPair("objective_subscriptions")
        /\ ~WasSubscribed => last.status = 404

-----------------------------------------------------------------------------
(* Properties of roles and invitations.                                    *)

\* the Admins of an organization in a users table
AdminsOf(rows, organizationId) ==
    { i \in 1..Len(rows) :
        rows[i].organization_id = organizationId /\ rows[i].role = Str("Admin") }

\* the row the last request named by id, in a table as it was before the request
NamedBefore(table) == SelectSeq(last.before[table], LAMBDA r : r.id = last.id)

Caller == SelectSeq(last.before.users, LAMBDA r : r.id = last.user_id)[1]

\* an Admin asks to take the Admin role from the only Admin of their organization
DemotesLastAdmin ==
    /\ last.op \in {"updateUserRole", "updateUser"}
    /\ Caller.role = Str("Admin")
    /\ NamedBefore("users") # <<>>
    /\ NamedBefore("users")[1].organization_id = Caller.organization_id
    /\ NamedBefore("users")[1].role = Str("Admin")
    /\ last.body.role \in ValidRoles \ {Str("Admin")}
    /\ Cardinality(AdminsOf(last.before.users, Caller.organization_id)) = 1

\* C26: an organization that has an Admin keeps one through every request, and the
\* demotion of its only Admin is answered 400 and changes no user
C26_KeepsAnAdmin ==
    /\ \A org \in {Org1, Org2} :
            AdminsOf(last.before.users, org) # {} => AdminsOf(users, org) # {}
    /\ DemotesLastAdmin => (last.status = 400 /\ users = last.before.users)

\* C27: an invitation that is accepted stays accepted through every later request,
\* also one made after it has expired, and an accept request for it creates no user
C27_AcceptedIsTerminal ==
    \A i \in 1..Len(last.before.invitations) :
        last.before.invitations[i].status = Str("accepted") =>
            /\ invitations[i].status = Str("accepted")
            /\ (last.op = "acceptInvitation" /\ last.id = invitations[i].token)
                    => users = last.before.users

\* an Admin or Manager asks to cancel an invitation of another organization
CancelsAcrossOrganizations ==
    /\ last.op = "cancelInvitation"
    /\ Caller.role \in {Str("Admin"), Str("Manager")}
    /\ NamedBefore("invitations") # <<>>
    /\ NamedBefore("invitations")[1].organization_id # Caller.organization_id

\* C28: a cancel request by an Admin or Manager for an invitation of another
\* organization is answered 404 and leaves the invitations as they were
C28_CancelStaysInOrganization ==
    CancelsAcrossOrganizations => (last.status = 404 /\ invitations = last.before.invitations)

-----------------------------------------------------------------------------
(* Properties of every delivery that passes validation.                    *)

\* C29: after a delivery that passed validation and mapped numeric values, whatever
\* their sign, the target objective's stored progress_percentage lies in [0, 100]
C29_ProgressWithinBounds ==
    (MapsValue /\ IsNum(TargetAfter[1].progress_percentage)) =>
        /\ ~Less(TargetAfter[1].progress_percentage, Zero)
        /\ ~Less(Hundred, TargetAfter[1].progress_percentage)

\* the events the last request appended for its integration
EventsOfDelivery ==
    SelectSeq(NewRows("webhook_events"), LAMBDA r : r.webhook_integration_id = last.id)

\* C30: a delivery to an active integration, whether its signature matches or not and
\* whether it then succeeds or fails, leaves exactly one WebhookEvent row
C30_OneEventPerDelivery ==
    DeliveredToActive => Len(EventsOfDelivery) = 1

====
